---- MODULE Spec2Model ----
(***************************************************************************)
(* A model of the write-ahead log of src/kudu/consensus/log.cc: the        *)
(* group-commit append pipeline (Reserve / AsyncAppend / AppendThread),    *)
(* segment rollover, garbage collection and the Log lifecycle.             *)
(*                                                                         *)
(* The Log object is one record, `log`; the operations of Log that run     *)
(* inside one thread without a suspension point are operators from a Log   *)
(* record to [log |-> the new record, s |-> the Status returned,           *)
(* hit |-> whether the injected fault was met].  The threads (producers,   *)
(* the appender, the allocation pool, the thread calling Close, the        *)
(* maintenance thread) are the actions.                                    *)
(***************************************************************************)
EXTENDS Integers, Sequences, FiniteSets, TLC

\* ------------------------------------------------------------------ bounds
\* Reserve calls started over the life of the log.
MaxBatches == 2
\* Faults (I/O errors, hook failures) injected over the life of the log.
MaxFaults == 2
\* REPLICATE ops in the second segment of the directory a reopened log finds.
MaxOpsLeft == 2
\* Log objects opened over the WAL directory, one after the other.
MaxOpens == 3
\* Segments of a registry handed to GC and to the size queries.
MaxSegments == 11
\* The sequence number of the active segment up to which
\* AllocateSegmentAndRollOver is called.
MaxRollOvers == 2

\* The threads that call Reserve / AsyncAppend: the consensus thread appends
\* REPLICATE batches (AsyncAppendReplicates), an apply thread appends COMMIT
\* batches (AsyncAppendCommit) and flush markers (WaitUntilAllFlushed).
Producers == {"consensus", "apply"}
TypesOf(p) == IF p = "consensus" THEN {"REPLICATE"} ELSE {"COMMIT", "FLUSH_MARKER"}
\* LogEntryBatchPB::ByteSize() of a batch, by type.
BatchBytes(type) == IF type = "REPLICATE" THEN {2} ELSE {1}
\* The retention indexes a GC caller may pass.
RetentionValues == {0, 2}
\* The retention indexes <<for_durability, for_peers>> passed to GC over a
\* registry of up to MaxSegments segments: each from below every index to above
\* every index, what the peers need being at most what durability needs.
AllRetentions ==
    {r \in (0..(MaxSegments + 1)) \X (0..(MaxSegments + 1)) : r[2] <= r[1]}

\* ------------------------------------------------------- program constants
\* FLAGS_group_commit_queue_size_bytes, in the model's byte unit.
group_commit_queue_size_bytes == 2
\* max_segment_size_ = options_.segment_size_mb * 1024 * 1024, in the model's unit.
max_segment_size == 5
\* The "+ 4" of the overflow test in DoAppend.
kEntryLengthSize == 4
\* kEntriesPerIndexChunk of the log index, in the model's unit.
kEntriesPerIndexChunk == 2
FLAGS_log_min_segments_to_retain == 2
FLAGS_log_max_segments_to_retain == 10
kInitialLogSegmentSequenceNumber == 0

REPLICATE == "REPLICATE"
COMMIT == "COMMIT"
FLUSH_MARKER == "FLUSH_MARKER"
LogEntryTypes == {REPLICATE, COMMIT, FLUSH_MARKER}

kLogInitialized == "kLogInitialized"
kLogWriting == "kLogWriting"
kLogClosed == "kLogClosed"

kAllocationNotStarted == "kAllocationNotStarted"
kAllocationInProgress == "kAllocationInProgress"
kAllocationFinished == "kAllocationFinished"

kEntryInitialized == "kEntryInitialized"
kEntryReserved == "kEntryReserved"
kEntrySerialized == "kEntrySerialized"
kEntryReady == "kEntryReady"
kEntryFailedToAppend == "kEntryFailedToAppend"

\* Status values.
OK == "OK"
IOError == "IOError"
IllegalState == "IllegalState"
\* ThreadPool::SubmitClosure on a pool that was shut down.
kPoolShutdownStatus == "ServiceUnavailable: the pool has been shut down"
\* A failed CHECK / CHECK_OK: the process aborts.
ABORT == "ABORT"
\* Log::kLogShutdownStatus
kLogShutdownStatus == "ServiceUnavailable: WAL is shutting down"

\* The places of one call where an I/O error (or a failing hook) can be met.
NoFault == "none"
InitFaults == {"open", "prealloc", "rename", "header"}
RollOverFaults == {"sync", "close", "rename", "header"}
DoAppendFaults == {"inject", "prealloc", "write", "postappend"} \cup RollOverFaults
CloseFaults == {"preclose", "sync", "close", "replace", "postclose"}

VARIABLES
    log,            \* the Log object and the files of its WAL directory
    entry_queue,    \* Log::entry_batch_queue_
    batches,        \* the LogEntryBatch objects, in the order they entered the queue
    prod,           \* each producer's position in Reserve / AsyncAppend
    app,            \* the AppendThread
    closer,         \* the thread that calls Log::Close
    cb_log,         \* the completion callbacks run so far: <<batch, status>>
    faults,         \* faults injected so far
    maint,          \* the maintenance thread, which calls Log::GC and the size queries
    reserves,       \* Reserve calls started so far
    crashed,        \* a CHECK failed: the process is gone
    replica         \* the consensus replica that produces for the log

vars == <<log, entry_queue, batches, prod, app, closer, maint, cb_log, faults, reserves, crashed,
         replica>>

\* ------------------------------------------------------------ small helpers
Result(L, s, hit) == [log |-> L, s |-> s, hit |-> hit]

NoFooter == [present |-> FALSE, num_entries |-> 0,
             min_replicate_index |-> -1, max_replicate_index |-> -1]

\* LogSegmentFooterPB as footer_builder_ holds it after Clear(); set_num_entries(0).
EmptyFooterBuilder == [present |-> TRUE, num_entries |-> 0,
                       min_replicate_index |-> -1, max_replicate_index |-> -1]

\* A segment file of the WAL directory, as RenameFile leaves it: the header is
\* written by WriteHeaderAndOpen.
NewFile == [header |-> FALSE, frames |-> <<>>, size |-> 0, footers |-> 0,
            footer |-> NoFooter]

\* active_segment_ == nullptr
NoSegment == [seq |-> 0, closed |-> FALSE]

\* RETURN_NOT_OK(call); rest: the call's result R is returned if it is not OK,
\* and otherwise the rest runs on the Log the call left.
ReturnNotOk(R, rest(_)) ==
    CHOOSE r \in {IF x.s # OK THEN x ELSE rest(x.log) : x \in {R}} : TRUE

Min(a, b) == IF a < b THEN a ELSE b
Max(a, b) == IF a > b THEN a ELSE b

\* WritableLogSegment::Size() of the active segment.
ActiveSize(L) == L.files[L.active_segment.seq].size

\* ------------------------------------------------------------- Log::Sync
\* Log::Sync: fsync of the active segment (if force_sync_all_) and the PostSync
\* hooks; either may fail.  `covered` is the set of batches whose frame was in
\* the active segment when a Sync returned OK.
Sync(L, f) ==
    IF f = "sync" THEN Result(L, IOError, TRUE)
    ELSE Result([L EXCEPT !.covered = @ \cup
                     {L.files[L.active_segment.seq].frames[i] :
                          i \in 1..Len(L.files[L.active_segment.seq].frames)}],
                OK, FALSE)

\* Log::CloseCurrentSegment: WritableLogSegment::WriteFooterAndClose(footer_builder_).
\* Writing to a segment that is already closed fails.
CloseCurrentSegment(L, f) ==
    IF f = "close" THEN Result(L, IOError, TRUE)
    ELSE IF L.active_segment.closed THEN Result(L, IOError, FALSE)
    ELSE Result([L EXCEPT !.files[L.active_segment.seq].footer = L.footer_builder,
                          !.files[L.active_segment.seq].footers = @ + 1,
                          !.active_segment.closed = TRUE],
                OK, FALSE)

\* A ReadableLogSegment of the reader: the header's sequence number, the
\* footer the object was initialised with and the size the file had then.
Readable(seq, footer, file_size) ==
    [seq |-> seq, footer |-> footer, file_size |-> file_size]

\* Log::ReplaceSegmentInReaderUnlocked: the last segment of the reader becomes
\* a readable segment carrying the active segment's footer.
ReplaceSegmentInReaderUnlocked(L, f) ==
    IF ~L.active_segment.closed THEN Result(L, ABORT, FALSE)
    ELSE IF f = "replace" THEN Result(L, IOError, TRUE)
    ELSE Result([L EXCEPT !.reader.segments[Len(L.reader.segments)] =
                     Readable(L.active_segment.seq,
                              L.files[L.active_segment.seq].footer,
                              L.files[L.active_segment.seq].size)],
                OK, FALSE)

\* Log::AsyncAllocateSegment: submits SegmentAllocationTask to allocation_pool_.
\* A pool that was shut down refuses the task.
\* `out_of_turn` names the allocation steps that were entered in another
\* allocation state than the one they belong to.
AsyncAllocateSegment(L) ==
    IF L.allocation_state # kAllocationNotStarted
    THEN Result([L EXCEPT !.out_of_turn = @ \cup {"AsyncAllocateSegment"}], ABORT, FALSE)
    ELSE LET L1 == [L EXCEPT !.allocation_status = "unset",
                             !.allocation_state = kAllocationInProgress]
         IN IF L.pool_shutdown THEN Result(L1, kPoolShutdownStatus, FALSE)
            ELSE Result(L1, OK, FALSE)

\* A preallocation whose failure puts the allocation back to NotStarted.
SegmentAllocationTaskRetrying(L, f) ==
    IF L.allocation_state # kAllocationInProgress
    THEN Result([L EXCEPT !.out_of_turn = @ \cup {"PreAllocateNewSegment"}], ABORT, FALSE)
    ELSE IF f = "prealloc"
    THEN Result([L EXCEPT !.allocation_status = IOError,
                          !.allocation_state = kAllocationNotStarted], IOError, TRUE)
    ELSE Result([L EXCEPT !.allocation_status = OK,
                          !.allocation_state = kAllocationFinished,
                          !.placeholder = TRUE], OK, FALSE)

\* Log::SegmentAllocationTask / Log::PreAllocateNewSegment: creates the
\* placeholder file; the state is Finished on every return path.
SegmentAllocationTask(L, f) ==
    IF L.allocation_state # kAllocationInProgress
    THEN Result([L EXCEPT !.out_of_turn = @ \cup {"PreAllocateNewSegment"}], ABORT, FALSE)
    ELSE IF f = "prealloc"
    THEN Result([L EXCEPT !.allocation_status = IOError,
                          !.allocation_state = kAllocationFinished], IOError, TRUE)
    ELSE Result([L EXCEPT !.allocation_status = OK,
                          !.allocation_state = kAllocationFinished,
                          !.placeholder = TRUE], OK, FALSE)

\* Log::SwitchToAllocatedSegment
SwitchToAllocatedSegment(L, f) ==
    IF L.allocation_state # kAllocationFinished THEN Result(L, ABORT, FALSE)
    ELSE
    LET seq == L.active_segment_sequence_number + 1
        L1 == [L EXCEPT !.active_segment_sequence_number = seq]
        \* RenameFile(next_segment_path_, new_segment_path)
        L2 == [L1 EXCEPT !.files = (seq :> NewFile) @@ @, !.placeholder = FALSE,
                         !.footer_builder = EmptyFooterBuilder]
        \* new_segment->WriteHeaderAndOpen(header)
        L2h == [L2 EXCEPT !.files[seq].header = TRUE]
        R == IF L.active_segment.seq # 0
             THEN ReplaceSegmentInReaderUnlocked(L2h, NoFault)
             ELSE Result(L2h, OK, FALSE)
        L3 == [R.log EXCEPT !.reader.segments = Append(@, Readable(seq, NoFooter, 0)),
                            !.active_segment = [seq |-> seq, closed |-> FALSE],
                            !.allocation_state = kAllocationNotStarted]
    IN  IF f = "rename" THEN Result(L1, IOError, TRUE)
        ELSE IF f = "header" THEN Result(L2, IOError, TRUE)
        ELSE IF R.s # OK THEN Result(R.log, ABORT, FALSE)
        ELSE Result(L3, OK, FALSE)

\* A RollOver that closes the active segment without Sync.
RollOverWithoutSync(L, f) ==
    IF L.allocation_status # OK THEN Result(L, L.allocation_status, FALSE)
    ELSE ReturnNotOk(CloseCurrentSegment(L, f), LAMBDA L2 :
         SwitchToAllocatedSegment(L2, f))

\* Log::RollOver.  The test of the allocation state is a DCHECK: a release
\* build goes on to Sync and CloseCurrentSegment whatever the state is.
RollOver(L, f) ==
    IF L.allocation_status # OK THEN Result(L, L.allocation_status, FALSE)
    ELSE LET L0 == IF L.allocation_state # kAllocationFinished
                   THEN [L EXCEPT !.out_of_turn = @ \cup {"RollOver"}] ELSE L
         IN ReturnNotOk(Sync(L0, f), LAMBDA L1 :
            ReturnNotOk(CloseCurrentSegment(L1, f), LAMBDA L2 :
            SwitchToAllocatedSegment(L2, f)))

\* Log::UpdateIndexForBatch: LogIndex::AddEntry of the batch's op, at the
\* sequence number of the active segment and the offset the batch starts at.
\* `index` is the content of the index chunks of the WAL directory.
UpdateIndexForBatch(L, b, start_offset) ==
    IF b.type # REPLICATE THEN L
    ELSE [L EXCEPT !.index =
             (b.index :> [segment_sequence_number |-> L.active_segment_sequence_number,
                          offset_in_segment |-> start_offset]) @@ @]

\* Log::UpdateFooterForBatch
UpdateFooterForBatch(L, b) ==
    LET fb == L.footer_builder
        fb1 == [fb EXCEPT !.num_entries = @ + 1]
    IN [L EXCEPT !.footer_builder =
            IF b.type = REPLICATE
            THEN [fb1 EXCEPT !.min_replicate_index =
                                 IF @ = -1 THEN b.index ELSE Min(@, b.index),
                             !.max_replicate_index = Max(@, b.index)]
            ELSE fb1]

\* The segment-allocation part of Log::DoAppend ("if the size of this entry
\* overflows the current segment, get a new one").
RollIfNeeded(L, bytes, f) ==
    IF L.allocation_state = kAllocationNotStarted
    THEN IF ActiveSize(L) + bytes + kEntryLengthSize > max_segment_size
         THEN ReturnNotOk(AsyncAllocateSegment(L), LAMBDA L1 :
                  IF ~L.async_preallocate_segments
                  THEN ReturnNotOk(SegmentAllocationTask(L1, f), LAMBDA L2 :
                           RollOver(L2, f))
                  ELSE Result(L1, OK, FALSE))
         ELSE Result(L, OK, FALSE)
    ELSE IF L.allocation_state = kAllocationFinished
    THEN RollOver(L, f)
    ELSE Result(L, OK, FALSE)

\* The write part of DoAppend with UpdateFooterForBatch ahead of the PostAppend
\* hook.
WriteToActiveFooterBeforeHook(L, id, b, f) ==
    IF f = "write" THEN Result(L, IOError, TRUE)
    ELSE LET L1 == [L EXCEPT !.files[L.active_segment.seq].frames = Append(@, id),
                             !.files[L.active_segment.seq].size = @ + b.bytes,
                             !.write_log = Append(@, id)]
         IN IF f = "postappend" THEN Result(UpdateFooterForBatch(L1, b), IOError, TRUE)
            ELSE Result(UpdateFooterForBatch(
                            UpdateIndexForBatch(L1, b, ActiveSize(L)), b), OK, FALSE)

\* The write part of Log::DoAppend: WriteEntryBatch, the PostAppend hook,
\* UpdateIndexForBatch, UpdateFooterForBatch.  `write_log` lists the batches in
\* the order their frames were written.  A failing PostAppend hook returns with
\* the frame written and the footer accumulator as it was.
WriteToActive(L, id, b, f) ==
    IF f = "write" THEN Result(L, IOError, TRUE)
    ELSE LET L1 == [L EXCEPT !.files[L.active_segment.seq].frames = Append(@, id),
                             !.files[L.active_segment.seq].size = @ + b.bytes,
                             !.write_log = Append(@, id)]
         IN IF f = "postappend" THEN Result(L1, IOError, TRUE)
            ELSE Result(UpdateFooterForBatch(
                            UpdateIndexForBatch(L1, b, ActiveSize(L)), b), OK, FALSE)

\* A DoAppend without "if (entry_batch_bytes == 0) return Status::OK()".
DoAppendWithoutEmptyCheck(L, id, b, f) ==
    IF f = "inject" THEN Result(L, IOError, TRUE)
    ELSE LET L1 == IF b.type = REPLICATE
                   THEN [L EXCEPT !.last_entry_op_id = b.index] ELSE L
         IN ReturnNotOk(RollIfNeeded(L1, b.bytes, f), LAMBDA L2 :
                WriteToActive(L2, id, b, f))

\* Log::DoAppend
DoAppend(L, id, b, f) ==
    IF f = "inject" THEN Result(L, IOError, TRUE)
    ELSE IF b.bytes = 0 THEN Result(L, OK, FALSE)
    ELSE LET L1 == IF b.type = REPLICATE
                   THEN [L EXCEPT !.last_entry_op_id = b.index] ELSE L
         IN ReturnNotOk(RollIfNeeded(L1, b.bytes, f), LAMBDA L2 :
                WriteToActive(L2, id, b, f))

\* consensus::MinimumOpId(), as an op index; last_entry_op_id_ holds it while
\* it is not initialized.
MinimumOpId == 0

\* Log::GetLatestEntryOpId
GetLatestEntryOpId(L) ==
    IF L.last_entry_op_id # 0 THEN L.last_entry_op_id ELSE MinimumOpId

\* ------------------------------------------------------- open and close
\* LogReader::Open: one readable segment per segment file of the directory
\* that has a header, in sequence-number order.  A file without a footer is
\* read as a segment without a footer.
RECURSIVE SegmentsOf(_, _)
SegmentsOf(files, seqs) ==
    IF seqs = {} THEN <<>>
    ELSE LET m == CHOOSE x \in seqs : \A y \in seqs : x <= y
             rest == SegmentsOf(files, seqs \ {m})
         IN IF files[m].header
            THEN <<Readable(m, files[m].footer, files[m].size)>> \o rest
            ELSE rest

\* Log::Init
LogInit(L, f) ==
    IF L.log_state # kLogInitialized THEN Result(L, ABORT, FALSE)
    ELSE IF f = "open" THEN Result(L, IOError, TRUE)
    ELSE
    LET segs == SegmentsOf(L.files, DOMAIN L.files)
        L1 == [L EXCEPT !.reader = [live |-> TRUE, segments |-> segs],
                        !.log_index = TRUE,
                        !.active_segment_sequence_number =
                            IF Len(segs) # 0 THEN segs[Len(segs)].seq ELSE @]
    IN  ReturnNotOk(AsyncAllocateSegment(L1), LAMBDA L2 :
        ReturnNotOk(SegmentAllocationTask(L2, f), LAMBDA L3 :
        ReturnNotOk(SwitchToAllocatedSegment(L3, f), LAMBDA L4 :
        Result([L4 EXCEPT !.log_state = kLogWriting], OK, FALSE))))

\* "case kLogWriting:" of Log::Close.  A failing PostClose hook returns its
\* error from a log that is already Closed.
CloseWriting(L, f) ==
    IF f = "preclose" THEN Result(L, IOError, TRUE)
    ELSE ReturnNotOk(Sync(L, f), LAMBDA L1 :
         ReturnNotOk(CloseCurrentSegment(L1, f), LAMBDA L2 :
         ReturnNotOk(ReplaceSegmentInReaderUnlocked(L2, f), LAMBDA L3 :
         Result([L3 EXCEPT !.log_state = kLogClosed,
                           !.log_index = FALSE,
                           !.reader = [live |-> FALSE, segments |-> <<>>]],
                IF f = "postclose" THEN IOError ELSE OK, f = "postclose"))))

\* Log::Close without its "case kLogClosed:".
CloseLockedWithoutClosedCase(L, f) ==
    IF L.log_state = kLogWriting THEN CloseWriting(L, f)
    ELSE Result(L, IllegalState, FALSE)

\* The part of Log::Close that runs under state_lock_ (the switch).
CloseLocked(L, f) ==
    IF L.log_state = kLogWriting THEN CloseWriting(L, f)
    ELSE IF L.log_state = kLogClosed THEN Result(L, OK, FALSE)
    ELSE Result(L, IllegalState, FALSE)

\* --------------------------------------------------------------------- GC
\* GetPrefixSizeToGC that stops only at a segment above for_durability.
RECURSIVE PrefixSizeFromAboveDurability(_, _, _, _, _)
PrefixSizeFromAboveDurability(segments, i, rem_segs, for_durability, for_peers) ==
    IF i > Len(segments) THEN 0
    ELSE IF rem_segs <= FLAGS_log_min_segments_to_retain THEN 0
    ELSE IF ~segments[i].footer.present THEN 0
    ELSE IF segments[i].footer.max_replicate_index > for_durability THEN 0
    ELSE IF /\ segments[i].footer.max_replicate_index >= for_peers
            /\ rem_segs <= FLAGS_log_max_segments_to_retain THEN 0
    ELSE 1 + PrefixSizeFromAboveDurability(segments, i + 1, rem_segs - 1,
                                           for_durability, for_peers)

\* GetPrefixSizeToGC, from the segment at position i with rem_segs remaining.
RECURSIVE PrefixSizeFrom(_, _, _, _, _)
PrefixSizeFrom(segments, i, rem_segs, for_durability, for_peers) ==
    IF i > Len(segments) THEN 0
    ELSE IF rem_segs <= FLAGS_log_min_segments_to_retain THEN 0
    ELSE IF ~segments[i].footer.present THEN 0
    ELSE IF segments[i].footer.max_replicate_index >= for_durability THEN 0
    ELSE IF /\ segments[i].footer.max_replicate_index >= for_peers
            /\ rem_segs <= FLAGS_log_max_segments_to_retain THEN 0
    ELSE 1 + PrefixSizeFrom(segments, i + 1, rem_segs - 1, for_durability, for_peers)

\* GetPrefixSizeToGC without "if (rem_segs <= FLAGS_log_min_segments_to_retain)".
RECURSIVE PrefixSizeWithoutFloor(_, _, _, _, _)
PrefixSizeWithoutFloor(segments, i, rem_segs, for_durability, for_peers) ==
    IF i > Len(segments) THEN 0
    ELSE IF ~segments[i].footer.present THEN 0
    ELSE IF segments[i].footer.max_replicate_index >= for_durability THEN 0
    ELSE IF /\ segments[i].footer.max_replicate_index >= for_peers
            /\ rem_segs <= FLAGS_log_max_segments_to_retain THEN 0
    ELSE 1 + PrefixSizeWithoutFloor(segments, i + 1, rem_segs - 1,
                                    for_durability, for_peers)

GetPrefixSizeToGCWithoutFloor(for_durability, for_peers, segments) ==
    PrefixSizeWithoutFloor(segments, 1, Len(segments), for_durability, for_peers)

GetPrefixSizeToGC(for_durability, for_peers, segments) ==
    PrefixSizeFrom(segments, 1, Len(segments), for_durability, for_peers)

\* GetSegmentsToGCUnlocked that retains nothing for the peers.
GetSegmentsToGCIgnoringPeers(L, for_durability, for_peers) ==
    SubSeq(L.reader.segments, 1,
           GetPrefixSizeToGC(for_durability, for_durability, L.reader.segments))

\* Log::GetSegmentsToGCUnlocked
GetSegmentsToGCUnlocked(L, for_durability, for_peers) ==
    SubSeq(L.reader.segments, 1,
           GetPrefixSizeToGC(for_durability, for_peers, L.reader.segments))

\* A GC that trims all but the last of the segments GetSegmentsToGCUnlocked gave.
GCWritingAllButLast(L, for_durability, for_peers) ==
    LET n == Len(GetSegmentsToGCUnlocked(L, for_durability, for_peers))
    IN Result([L EXCEPT !.reader.segments = SubSeq(@, Max(n, 1), Len(@))], OK, FALSE)

\* The part of Log::GC that runs under state_lock_, from GetSegmentsToGCUnlocked
\* on: TrimSegmentsUpToAndIncluding takes the prefix out of the reader.  The
\* files are deleted after the lock is released (DeleteFile below).
GCWriting(L, for_durability, for_peers) ==
    LET n == Len(GetSegmentsToGCUnlocked(L, for_durability, for_peers))
    IN Result([L EXCEPT !.reader.segments = SubSeq(@, n + 1, Len(@))], OK, FALSE)

\* Log::GC with a status in place of its CHECK_EQ(kLogWriting, log_state_).
GCReturningIllegalState(L, for_durability, for_peers) ==
    IF L.log_state # kLogWriting THEN Result(L, IllegalState, FALSE)
    ELSE GCWriting(L, for_durability, for_peers)

\* A GC that deletes the files of the prefix and leaves the reader as it was.
GCDeletingWithoutTrim(L, for_durability, for_peers) ==
    LET del == GetSegmentsToGCUnlocked(L, for_durability, for_peers)
        gone == {del[i].seq : i \in 1..Len(del)}
    IN IF L.log_state # kLogWriting THEN Result(L, ABORT, FALSE)
       ELSE Result([L EXCEPT !.files = [q \in (DOMAIN @) \ gone |-> @[q]]], OK, FALSE)

\* Log::GC up to the release of state_lock_: "CHECK_EQ(kLogWriting, log_state_)"
\* comes first.
GC(L, for_durability, for_peers) ==
    IF L.log_state # kLogWriting THEN Result(L, ABORT, FALSE)
    ELSE GCWriting(L, for_durability, for_peers)

\* One turn of the loop of Log::GC over segments_to_delete:
\* "RETURN_NOT_OK(fs_manager_->env()->DeleteFile(segment->path()))".
DeleteFile(L, seq, f) ==
    IF f = "delete" THEN Result(L, IOError, TRUE)
    ELSE Result([L EXCEPT !.files = [q \in (DOMAIN @) \ {seq} |-> @[q]]], OK, FALSE)

\* LogReader::GetMinReplicateIndex: the smallest min_replicate_index of the
\* segments that have a footer with one, -1 without any.
GetMinReplicateIndex(segments) ==
    LET mins == {segments[i].footer.min_replicate_index :
                     i \in {j \in 1..Len(segments) :
                                /\ segments[j].footer.present
                                /\ segments[j].footer.min_replicate_index # -1}}
    IN IF mins = {} THEN -1 ELSE CHOOSE m \in mins : \A x \in mins : m <= x

\* LogIndex::GC(min_index_to_retain): the chunks that lie wholly below the
\* chunk of min_index_to_retain are deleted.
LogIndexGC(index, min_index_to_retain) ==
    [i \in {j \in DOMAIN index : j \div kEntriesPerIndexChunk >=
                                    min_index_to_retain \div kEntriesPerIndexChunk}
        |-> index[i]]

\* The end of Log::GC: "if (min_remaining_op_idx > 0) log_index_->GC(...)".
GCLogIndex(L) ==
    LET min_remaining_op_idx == GetMinReplicateIndex(L.reader.segments)
    IN IF min_remaining_op_idx > 0
       THEN [L EXCEPT !.index = LogIndexGC(@, min_remaining_op_idx)]
       ELSE L

\* A sum that counts each segment as one unit.
TotalFileSizeCountingSegments(segments) == Len(segments)

\* "for (const auto& segment : segments_to_delete) total_size += segment->file_size()"
RECURSIVE TotalFileSize(_)
TotalFileSize(segments) ==
    IF segments = <<>> THEN 0
    ELSE Head(segments).file_size + TotalFileSize(Tail(segments))

\* The size Log::GetGCableDataSize returns.
GCableDataSize(L, for_durability, for_peers) ==
    TotalFileSize(GetSegmentsToGCUnlocked(L, for_durability, for_peers))

\* Log::GetGCableDataSize: the calls and CHECKs before the sum.
GetGCableDataSize(L, for_durability, for_peers) ==
    IF L.log_state # kLogWriting THEN Result(L, ABORT, FALSE)
    ELSE Result(L, OK, FALSE)

\* The loop of GetReplaySizeMap without "if (!segment->HasFooter()) continue".
RECURSIVE ReplaySizeFromEverySegment(_, _, _, _)
ReplaySizeFromEverySegment(segments, i, cumulative_size, replay_size) ==
    IF i = 0 THEN replay_size
    ELSE LET c == cumulative_size + segments[i].file_size
         IN ReplaySizeFromEverySegment(segments, i - 1, c,
                (segments[i].footer.max_replicate_index :> c) @@ replay_size)

\* The loop of Log::GetReplaySizeMap, from the segment at position i down to
\* the first: a segment without a footer is skipped, and
\* "(*replay_size)[max_replicate_index] = cumulative_size" replaces the entry a
\* later segment left under the same key.
RECURSIVE ReplaySizeFrom(_, _, _, _)
ReplaySizeFrom(segments, i, cumulative_size, replay_size) ==
    IF i = 0 THEN replay_size
    ELSE IF ~segments[i].footer.present
    THEN ReplaySizeFrom(segments, i - 1, cumulative_size, replay_size)
    ELSE LET c == cumulative_size + segments[i].file_size
         IN ReplaySizeFrom(segments, i - 1, c,
                (segments[i].footer.max_replicate_index :> c) @@ replay_size)

\* The map Log::GetReplaySizeMap fills.
ReplaySizeMap(L) == ReplaySizeFrom(L.reader.segments, Len(L.reader.segments), 0, <<>>)

\* Log::GetReplaySizeMap: the CHECKs before the loop.
GetReplaySizeMap(L) ==
    IF L.log_state # kLogWriting THEN Result(L, ABORT, FALSE)
    ELSE Result(L, OK, FALSE)

\* ------------------------------------------------------------ entry queue
\* A queue that admits a batch while it holds exactly its budget.
QueueIsFullAboveBudget(q) == q.size > group_commit_queue_size_bytes

\* BlockingQueue::BlockingPut refuses when the queue was shut down and waits
\* while the queue holds its byte budget or more.
QueueIsFull(q) == q.size >= group_commit_queue_size_bytes

CanPut(q) == q.shutdown \/ ~QueueIsFull(q)

\* BlockingQueue::BlockingDrainTo returns when the queue holds something or was
\* shut down.
CanDrain(q) == q.list # <<>> \/ q.shutdown

\* ------------------------------------------------------------------ Init
\* The state after Log::Log: nothing on disk, no thread started.
InitLog(async) ==
    [log_state |-> kLogInitialized,
     active_segment_sequence_number |-> kInitialLogSegmentSequenceNumber,
     active_segment |-> NoSegment,
     reader |-> [live |-> FALSE, segments |-> <<>>],
     log_index |-> FALSE,
     index |-> <<>>,
     allocation_state |-> kAllocationNotStarted,
     allocation_status |-> "unset",
     placeholder |-> FALSE,
     pool_shutdown |-> FALSE,
     files |-> <<>>,
     footer_builder |-> NoFooter,
     last_entry_op_id |-> 0,
     async_preallocate_segments |-> async,
     init_called |-> FALSE,
     covered |-> {},
     write_log |-> <<>>,
     out_of_turn |-> {},
     opens |-> 1]

\* The maintenance thread after a call that returned s: `pending` are the
\* files a running GC has still to delete, `size` what GetGCableDataSize
\* returned (-1: not called last), `replay` what GetReplaySizeMap filled.
Maintenance(s, pending, size, replay) ==
    [s |-> s, pending |-> pending, size |-> size, replay |-> replay]

\* A producer between two calls; s is the Status its last Reserve returned.
IdleProducer(s) == [pc |-> "idle", type |-> COMMIT, bytes |-> 0, id |-> 0, s |-> s]

NoGroup == [ids |-> <<>>, syncs |-> 0, synced_after |-> 0]

\* ------------------------------------------------------------ the consensus replica
\* The replica is the producer above the log.  Its code is not part of the
\* sources at hand: it is modelled from the specification of its RPC surface
\* and from what raft_consensus-itest.cc sends to it and expects back.

\* Terms and indexes of the operations a leader sends, and the length of ops[].
MaxTerm == 3
MaxIndex == 3
MaxOps == 2

MakeOpId(term, index) == [term |-> term, index |-> index]

NoRequest ==
    [caller_term |-> 0, preceding_id |-> MakeOpId(0, 0), ops |-> <<>>, committed_index |-> 0]

NoResponse ==
    [code |-> "none", last_committed_idx |-> 0, last_received |-> MakeOpId(0, 0),
     last_received_current_leader |-> MakeOpId(0, 0)]

FOLLOWER == "FOLLOWER"
LEADER == "LEADER"

\* The two other tablet servers of the tablet.
Followers == {1, 2}

\* A Raft config: the index of the operation that brought it, and its
\* members among the other servers (this server is a member of every one).
RaftConfig(opid_index, peers) == [opid_index |-> opid_index, peers |-> peers]

NoConfig == RaftConfig(0, {})

\* The single replica left by SetupSingleReplicaTest: term 1, and operation 1.1
\* replicated, committed and applied on it.  ops[i] is the term of the
\* operation with index i; `prepared` is the index up to which operations
\* have left the prepare queue (they all write the same row, so one waits for
\* the row lock until the one before it was applied); `aborted` are the
\* operations the last abort removed; `wal_committed_index` is the highest
\* index with a COMMIT message in the WAL; `fresh` says that the replica has
\* served no call since it restarted.  As a leader the server keeps, for
\* each other server, the index up to which that server has its operations
\* (`match`); `rejecting` are the servers told to reject its requests;
\* `cc_call` is the server a ChangeConfig call in flight wants removed, and
\* `cc_status` what the last such call returned.
InitReplica ==
    [current_term |-> 1,
     ops |-> <<1>>,
     committed_index |-> 1,
     wal_committed_index |-> 1,
     prepared |-> 1,
     applied |-> <<MakeOpId(1, 1)>>,
     aborted |-> <<>>,
     last_received_current_leader |-> MakeOpId(0, 0),
     fresh |-> FALSE,
     req |-> NoRequest,
     resp |-> NoResponse,
     role |-> FOLLOWER,
     config |-> RaftConfig(1, Followers),
     pending_config |-> NoConfig,
     rejecting |-> {},
     match |-> [f \in Followers |-> 1],
     cc_call |-> 0,
     cc_status |-> "none"]

Init ==
    /\ \E async \in BOOLEAN : log = InitLog(async)
    /\ entry_queue = [list |-> <<>>, size |-> 0, shutdown |-> FALSE]
    /\ batches = <<>>
    /\ prod = [p \in Producers |-> IdleProducer("none")]
    /\ app = [pc |-> "none", entry_batches |-> <<>>, i |-> 1, is_all_commits |-> TRUE,
              shutting_down |-> FALSE, groups |-> 0, group |-> NoGroup]
    /\ closer = [pc |-> "idle", s |-> "none", reclosed |-> FALSE]
    /\ maint = Maintenance("none", <<>>, -1, <<>>)
    /\ cb_log = <<>>
    /\ faults = 0
    /\ reserves = 0
    /\ crashed = FALSE
    /\ replica = InitReplica

\* The faults a call with fault places `places` may still meet.
FaultChoices(places) == IF faults < MaxFaults THEN places \cup {NoFault} ELSE {NoFault}

\* A call ran with fault f and ended as R: the fault counts only if it was met.
\* `fatal`: a callback run in the same step ended the process (LOG(FATAL)).
RanWith(R, f, fatal) ==
    /\ f = NoFault \/ R.hit
    /\ faults' = IF R.hit THEN faults + 1 ELSE faults
    /\ crashed' = (R.s = ABORT \/ fatal)
    /\ log' = R.log

Ran(R, f) == RanWith(R, f, FALSE)

\* Log::Open: the constructor's object is initialised once; on success the
\* append thread starts.
Open ==
    /\ ~crashed /\ ~log.init_called
    /\ \E f \in FaultChoices(InitFaults) :
         LET R == LogInit([log EXCEPT !.init_called = TRUE], f)
         IN /\ Ran(R, f)
            /\ app' = IF R.s = OK THEN [app EXCEPT !.pc = "drain"] ELSE app
    /\ UNCHANGED <<entry_queue, batches, prod, closer, maint, cb_log, reserves, replica>>

\* ------------------------------------------------------------- producers
\* The size of a batch: 0 for a FLUSH_MARKER batch (LogEntryBatch::LogEntryBatch).
SizesOf(type) == IF type = FLUSH_MARKER THEN {0} ELSE BatchBytes(type)

\* Log::Reserve up to BlockingPut: the CHECK of the lifecycle state and the
\* construction of the batch.
ReserveBegin(p) ==
    /\ ~crashed /\ log.init_called
    /\ prod[p].pc = "idle"
    /\ reserves < MaxBatches
    /\ reserves' = reserves + 1
    /\ IF log.log_state # kLogWriting
       THEN /\ crashed' = TRUE
            /\ prod' = [prod EXCEPT ![p].s = ABORT]
       ELSE /\ \E type \in TypesOf(p) : \E bytes \in SizesOf(type) :
                 prod' = [prod EXCEPT ![p] = [pc |-> "put", type |-> type,
                                              bytes |-> bytes, id |-> 0, s |-> "none"]]
            /\ UNCHANGED crashed
    /\ UNCHANGED <<log, entry_queue, batches, app, closer, maint, cb_log, faults, replica>>

\* The index of the next REPLICATE op: consensus hands its ops to the log in
\* index order.
NextIndex == 1 + Cardinality({i \in 1..Len(batches) : batches[i].type = REPLICATE})

\* The LogEntryBatch Reserve puts into the queue: constructed (kEntryInitialized,
\* an empty buffer_, no callback, no replicates) and then MarkReserved, which
\* takes ready_lock_ and sets kEntryReserved.  The batch is in the hands of the
\* one producer until BlockingPut, so the two states are one step.
NewBatch(type, bytes) ==
    [type |-> type, bytes |-> bytes,
     index |-> IF type = REPLICATE THEN NextIndex ELSE 0,
     state |-> kEntryReserved, appended |-> "no", group |-> 0,
     at_shutdown |-> FALSE,
     buffer |-> 0, callback |-> FALSE, replicates |-> FALSE, ready_lock |-> TRUE]

\* entry_batch_queue_.BlockingPut(batch): the batch together with its size.
Put(q, id, bytes) == [q EXCEPT !.list = Append(@, id), !.size = @ + bytes]

\* Reserve ignoring what BlockingPut returned.
ReserveStatusIgnoringPut(put_ok) == OK

\* "if (!entry_batch_queue_.BlockingPut(...)) return kLogShutdownStatus"
ReserveStatus(put_ok) == IF put_ok THEN OK ELSE kLogShutdownStatus

\* Log::Reserve from BlockingPut on: the batch enters the queue, or the call
\* returns kLogShutdownStatus.
ReservePut(p) ==
    /\ ~crashed
    /\ prod[p].pc = "put"
    /\ CanPut(entry_queue)
    /\ LET put_ok == ~entry_queue.shutdown
           s == ReserveStatus(put_ok)
       IN /\ batches' = IF put_ok
                        THEN Append(batches, NewBatch(prod[p].type, prod[p].bytes))
                        ELSE batches
          /\ entry_queue' = IF put_ok
                            THEN Put(entry_queue, Len(batches) + 1, prod[p].bytes)
                            ELSE entry_queue
          /\ prod' = IF s = OK
                     THEN [prod EXCEPT ![p].pc = "reserved", ![p].id = Len(batches) + 1,
                                       ![p].s = s]
                     ELSE [prod EXCEPT ![p] = IdleProducer(s)]
    /\ UNCHANGED <<log, app, closer, maint, cb_log, faults, reserves, replica, crashed>>

\* LogEntryBatch::SetReplicates, which AsyncAppendReplicates calls between
\* Reserve and AsyncAppend.
SetReplicates(b) == [b EXCEPT !.replicates = (b.type = REPLICATE)]

\* LogEntryBatch::Serialize: buffer_ holds the serialized batch, nothing for a
\* FLUSH_MARKER batch.
Serialize(b) ==
    [b EXCEPT !.buffer = IF b.type = FLUSH_MARKER THEN 0 ELSE b.bytes,
              !.state = kEntrySerialized]

\* LogEntryBatch::set_callback
set_callback(b) == [b EXCEPT !.callback = TRUE]

\* LogEntryBatch::MarkReady: kEntryReady, then ready_lock_.Unlock().
MarkReady(b) == [b EXCEPT !.state = kEntryReady, !.ready_lock = FALSE]

\* Log::AsyncAppend: Serialize, set_callback, MarkReady.
AsyncAppend(p) ==
    /\ ~crashed
    /\ prod[p].pc = "reserved"
    /\ IF log.log_state # kLogWriting
       THEN /\ crashed' = TRUE
            /\ prod' = [prod EXCEPT ![p].s = ABORT]
            /\ UNCHANGED batches
       ELSE /\ batches' = [batches EXCEPT ![prod[p].id] =
                               MarkReady(set_callback(Serialize(SetReplicates(@))))]
            /\ prod' = [prod EXCEPT ![p] = IdleProducer(OK)]
            /\ UNCHANGED crashed
    /\ UNCHANGED <<log, entry_queue, app, closer, maint, cb_log, faults, reserves, replica>>

\* The same call step by step, as the appender may see it.  SetReplicates, the
\* CHECK of the lifecycle state and Serialize: up to here the producer touches
\* nothing but the batch and reads log_state_ once.
AsyncAppendSerialize(p) ==
    /\ ~crashed
    /\ prod[p].pc = "reserved"
    /\ IF log.log_state # kLogWriting
       THEN /\ crashed' = TRUE
            /\ prod' = [prod EXCEPT ![p].s = ABORT]
            /\ UNCHANGED batches
       ELSE /\ batches' = [batches EXCEPT ![prod[p].id] = Serialize(SetReplicates(@))]
            /\ prod' = [prod EXCEPT ![p].pc = "serialized"]
            /\ UNCHANGED crashed
    /\ UNCHANGED <<log, entry_queue, app, closer, maint, cb_log, faults, reserves, replica>>

\* "entry_batch->set_callback(callback)"
AsyncAppendSetCallback(p) ==
    /\ ~crashed
    /\ prod[p].pc = "serialized"
    /\ batches' = [batches EXCEPT ![prod[p].id] = set_callback(@)]
    /\ prod' = [prod EXCEPT ![p].pc = "callback"]
    /\ UNCHANGED <<log, entry_queue, app, closer, maint, cb_log, faults, reserves, replica,
                   crashed>>

\* "entry_batch->MarkReady()"
AsyncAppendMarkReady(p) ==
    /\ ~crashed
    /\ prod[p].pc = "callback"
    /\ batches' = [batches EXCEPT ![prod[p].id] = MarkReady(@)]
    /\ prod' = [prod EXCEPT ![p] = IdleProducer(OK)]
    /\ UNCHANGED <<log, entry_queue, app, closer, maint, cb_log, faults, reserves, replica,
                   crashed>>

\* ---------------------------------------------------------- AppendThread
\* An appender that takes a batch without waiting for its ready_lock_.
WaitForReadyWithoutLock(b) == TRUE

\* LogEntryBatch::WaitForReady: ready_lock_.Lock() returns once the producer
\* has unlocked it in MarkReady.
WaitForReady(b) == ~b.ready_lock

\* An appender that leaves its loop as soon as the queue was shut down, with
\* the queued batches unprocessed.
AppenderDrainExitingAtShutdown ==
    /\ ~crashed
    /\ app.pc = "drain"
    /\ CanDrain(entry_queue)
    /\ LET taken == IF entry_queue.shutdown THEN <<>> ELSE entry_queue.list
       IN /\ app' = [app EXCEPT !.pc = "append",
                                !.entry_batches = taken,
                                !.i = 1,
                                !.is_all_commits = TRUE,
                                !.shutting_down = entry_queue.shutdown,
                                !.groups = @ + 1,
                                !.group = [ids |-> taken, syncs |-> 0, synced_after |-> 0]]
          /\ batches' = [i \in 1..Len(batches) |->
                           IF \E k \in 1..Len(taken) : taken[k] = i
                           THEN [batches[i] EXCEPT !.group = app.groups + 1]
                           ELSE batches[i]]
    /\ entry_queue' = [entry_queue EXCEPT !.list = <<>>, !.size = 0]
    /\ UNCHANGED <<log, prod, closer, maint, cb_log, faults, reserves, replica, crashed>>

\* BlockingDrainTo: everything queued leaves the queue in queue order; an empty
\* queue that was shut down returns false.
AppenderDrain ==
    /\ ~crashed
    /\ app.pc = "drain"
    /\ CanDrain(entry_queue)
    /\ app' = [app EXCEPT !.pc = "append",
                          !.entry_batches = entry_queue.list,
                          !.i = 1,
                          !.is_all_commits = TRUE,
                          !.shutting_down = (entry_queue.list = <<>>),
                          !.groups = @ + 1,
                          !.group = [ids |-> entry_queue.list, syncs |-> 0,
                                     synced_after |-> 0]]
    /\ entry_queue' = [entry_queue EXCEPT !.list = <<>>, !.size = 0]
    /\ batches' = [i \in 1..Len(batches) |->
                     IF \E k \in 1..Len(entry_queue.list) : entry_queue.list[k] = i
                     THEN [batches[i] EXCEPT !.group = app.groups + 1]
                     ELSE batches[i]]
    /\ UNCHANGED <<log, prod, closer, maint, cb_log, faults, reserves, replica, crashed>>

\* The flag taken from the last batch alone.
UpdateAllCommitsLastOnly(is_all_commits, type) == type = COMMIT

\* "if (is_all_commits && entry_batch->type_ != COMMIT) is_all_commits = false"
UpdateAllCommits(is_all_commits, type) == is_all_commits /\ type = COMMIT

\* The drained batches taken last first.
BatchToAppendReversed(entry_batches, i) == entry_batches[Len(entry_batches) + 1 - i]

\* "for (LogEntryBatch* entry_batch : entry_batches)": the batch of turn i.
BatchToAppend(entry_batches, i) == entry_batches[i]

\* The callback of batch b run with status s ends the process: the callbacks
\* consensus passes with REPLICATE and COMMIT batches crash on a status that is
\* not OK; the Synchronizer of WaitUntilAllFlushed hands the status on.
IsFatal(fatal_callbacks, b, s) ==
    fatal_callbacks /\ s # OK /\ b.type # FLUSH_MARKER

\* The callbacks of cbs that run: those up to the first one that ends the
\* process.
RECURSIVE UpToFatal(_, _, _)
UpToFatal(fatal_callbacks, cbs, bs) ==
    IF cbs = <<>> THEN <<>>
    ELSE IF IsFatal(fatal_callbacks, bs[Head(cbs)[1]], Head(cbs)[2]) THEN <<Head(cbs)>>
    ELSE <<Head(cbs)>> \o UpToFatal(fatal_callbacks, Tail(cbs), bs)

\* One turn of the loop over entry_batches that does not run the callback of a
\* batch whose DoAppend failed.
AppenderAppendWithoutErrorCallback(fatal_callbacks) ==
    /\ ~crashed
    /\ app.pc = "append"
    /\ app.i <= Len(app.entry_batches)
    /\ LET id == BatchToAppend(app.entry_batches, app.i)
           b == batches[id]
       IN /\ WaitForReady(b)
          /\ app' = [app EXCEPT !.i = @ + 1,
                                !.is_all_commits = UpdateAllCommits(@, b.type)]
          /\ \E f \in FaultChoices(DoAppendFaults) :
               \E R \in {DoAppend(log, id, b, f)} :
                  /\ Ran(R, f)
                  /\ batches' = [batches EXCEPT
                         ![id].state = IF R.s # OK THEN kEntryFailedToAppend ELSE @,
                         ![id].appended = IF R.s # OK THEN "fail" ELSE "ok"]
                  /\ cb_log' = cb_log
    /\ UNCHANGED <<entry_queue, prod, closer, maint, reserves, replica>>

\* A loop over entry_batches that is left at the first DoAppend that fails.
NextTurnUnlessFailed(i, s, n) == IF s # OK THEN n + 1 ELSE i + 1

\* "for (LogEntryBatch* entry_batch : entry_batches)" has no break: after
\* turn i of n comes turn i + 1, whatever Status s DoAppend returned.
NextTurn(i, s, n) == i + 1

\* One turn of the loop over entry_batches: WaitForReady, DoAppend, and on a
\* failure set_failed_to_append and the callback with the error.
AppenderAppendWith(fatal_callbacks) ==
    /\ ~crashed
    /\ app.pc = "append"
    /\ app.i <= Len(app.entry_batches)
    /\ LET id == BatchToAppend(app.entry_batches, app.i)
           b == batches[id]
       IN /\ WaitForReady(b)
          /\ \E f \in FaultChoices(DoAppendFaults) :
               \E R \in {DoAppend(log, id, b, f)} :
                  /\ app' = [app EXCEPT
                         !.i = NextTurn(@, R.s, Len(app.entry_batches)),
                         !.is_all_commits = UpdateAllCommits(@, b.type)]
                  /\ RanWith(R, f, R.s # ABORT /\ IsFatal(fatal_callbacks, b, R.s))
                  /\ batches' = [batches EXCEPT
                         ![id].state = IF R.s # OK THEN kEntryFailedToAppend ELSE @,
                         ![id].appended = IF R.s # OK THEN "fail" ELSE "ok"]
                  /\ cb_log' = IF R.s \notin {OK, ABORT}
                               THEN Append(cb_log, <<id, R.s>>) ELSE cb_log
    /\ UNCHANGED <<entry_queue, prod, closer, maint, reserves, replica>>

AppenderAppend == AppenderAppendWith(FALSE)

\* Callbacks that skip the failed_to_append() test.
RECURSIVE GroupCallbacksIgnoringFailure(_, _, _)
GroupCallbacksIgnoringFailure(ids, bs, s) ==
    IF ids = <<>> THEN <<>>
    ELSE <<<<Head(ids), s>>>> \o GroupCallbacksIgnoringFailure(Tail(ids), bs, s)

\* The callbacks the appender runs after the group's Sync returned s.
RECURSIVE GroupCallbacks(_, _, _)
GroupCallbacks(ids, bs, s) ==
    IF ids = <<>> THEN <<>>
    ELSE LET id == Head(ids)
             rest == GroupCallbacks(Tail(ids), bs, s)
         IN IF s # OK THEN <<<<id, s>>>> \o rest
            ELSE IF bs[id].state # kEntryFailedToAppend THEN <<<<id, OK>>>> \o rest
            ELSE rest

\* The end of one turn of RunThread: the group's Sync, then the callbacks.
AppenderSyncWith(fatal_callbacks) ==
    /\ ~crashed
    /\ app.pc = "append"
    /\ app.i > Len(app.entry_batches)
    /\ \E f \in FaultChoices({"sync"}) :
         LET R == IF ~app.is_all_commits THEN Sync(log, f) ELSE Result(log, OK, FALSE)
             cbs == GroupCallbacks(app.entry_batches, batches, R.s)
         IN /\ RanWith(R, f, \E k \in 1..Len(cbs) :
                                  IsFatal(fatal_callbacks, batches[cbs[k][1]], cbs[k][2]))
            /\ cb_log' = cb_log \o UpToFatal(fatal_callbacks, cbs, batches)
            /\ app' = [app EXCEPT
                   !.pc = IF app.shutting_down THEN "done" ELSE "drain",
                   !.entry_batches = <<>>,
                   !.group = [@ EXCEPT
                       !.syncs = IF ~app.is_all_commits THEN @ + 1 ELSE @,
                       !.synced_after = IF ~app.is_all_commits THEN app.i - 1 ELSE @]]
    /\ UNCHANGED <<entry_queue, batches, prod, closer, maint, reserves, replica>>

AppenderSync == AppenderSyncWith(FALSE)

\* The task of allocation_pool_ when segments are preallocated asynchronously.
AllocationTask ==
    /\ ~crashed
    /\ log.allocation_state = kAllocationInProgress
    /\ ~log.pool_shutdown
    /\ \E f \in FaultChoices({"prealloc"}) :
         Ran(SegmentAllocationTask(log, f), f)
    /\ UNCHANGED <<entry_queue, batches, prod, app, closer, maint, cb_log, reserves, replica>>

\* ------------------------------------- DoAppend waiting for the allocation
\* The overflow test of DoAppend: the batch does not fit the active segment
\* and no allocation was started.
NeedsAllocation(L, b) ==
    /\ b.bytes > 0
    /\ L.allocation_state = kAllocationNotStarted
    /\ ActiveSize(L) + b.bytes + kEntryLengthSize > max_segment_size

\* DoAppend hands SegmentAllocationTask to allocation_pool_ and goes on to
\* RollOver, which waits for the task's status.
SubmitsAllocation(L, b) ==
    /\ ~L.async_preallocate_segments
    /\ ~L.pool_shutdown
    /\ NeedsAllocation(L, b)

\* A turn of the loop over entry_batches whose DoAppend does not wait for
\* the allocation pool.
AppenderAppendInline ==
    /\ app.pc = "append"
    /\ app.i <= Len(app.entry_batches)
    /\ ~SubmitsAllocation(log, batches[BatchToAppend(app.entry_batches, app.i)])
    /\ AppenderAppend

\* DoAppend up to the return of AsyncAllocateSegment: last_entry_op_id_ is
\* set and the task is in the queue of allocation_pool_.
AppenderSubmitAllocation ==
    /\ ~crashed
    /\ app.pc = "append"
    /\ app.i <= Len(app.entry_batches)
    /\ LET id == BatchToAppend(app.entry_batches, app.i)
           b == batches[id]
       IN /\ WaitForReady(b)
          /\ SubmitsAllocation(log, b)
          /\ \E R \in {AsyncAllocateSegment(IF b.type = REPLICATE
                                              THEN [log EXCEPT !.last_entry_op_id = b.index]
                                              ELSE log)} :
                Ran(R, NoFault)
          /\ app' = [app EXCEPT !.pc = "rollover"]
    /\ UNCHANGED <<entry_queue, batches, prod, closer, maint, cb_log, reserves, replica>>

\* The rest of that DoAppend: RollOver returns from allocation_status_.Get()
\* once SegmentAllocationTask has set the status, then the batch is written.
AppenderRollOver ==
    /\ ~crashed
    /\ app.pc = "rollover"
    /\ log.allocation_status # "unset"
    /\ LET id == BatchToAppend(app.entry_batches, app.i)
           b == batches[id]
       IN \E f \in FaultChoices(RollOverFaults \cup {"write", "postappend"}) :
            \E R \in {ReturnNotOk(RollOver(log, f), LAMBDA L2 : WriteToActive(L2, id, b, f))} :
               /\ app' = [app EXCEPT
                      !.pc = "append",
                      !.i = NextTurn(@, R.s, Len(app.entry_batches)),
                      !.is_all_commits = UpdateAllCommits(@, b.type)]
               /\ Ran(R, f)
               /\ batches' = [batches EXCEPT
                      ![id].state = IF R.s # OK THEN kEntryFailedToAppend ELSE @,
                      ![id].appended = IF R.s # OK THEN "fail" ELSE "ok"]
               /\ cb_log' = IF R.s \notin {OK, ABORT}
                            THEN Append(cb_log, <<id, R.s>>) ELSE cb_log
    /\ UNCHANGED <<entry_queue, prod, closer, maint, reserves, replica>>

\* ------------------------------------------- Log::AllocateSegmentAndRollOver
\* Log::AllocateSegmentAndRollOver, called by the maintenance thread on an open
\* log: AsyncAllocateSegment.  The call takes no lock that the appender takes.
AllocateSegmentAndRollOver ==
    /\ ~crashed
    /\ log.log_state = kLogWriting
    /\ log.active_segment_sequence_number <= MaxRollOvers
    /\ maint.pending = <<>> /\ maint.s \notin {"indexing", "rolling"}
    /\ \E R \in {AsyncAllocateSegment(log)} :
          /\ Ran(R, NoFault)
          /\ maint' = Maintenance(IF R.s = OK THEN "rolling" ELSE R.s, <<>>, -1, <<>>)
    /\ UNCHANGED <<entry_queue, batches, prod, app, closer, cb_log, reserves, replica>>

\* The RollOver of AllocateSegmentAndRollOver: allocation_status_.Get() returns
\* once the task of the pool has set the status.
AllocateSegmentAndRollOverRoll ==
    /\ ~crashed
    /\ maint.s = "rolling"
    /\ log.allocation_status # "unset"
    /\ \E f \in FaultChoices(RollOverFaults) :
         \E R \in {RollOver(log, f)} :
            /\ Ran(R, f)
            /\ maint' = Maintenance(R.s, <<>>, -1, <<>>)
    /\ UNCHANGED <<entry_queue, batches, prod, app, closer, cb_log, reserves, replica>>

\* ------------------------------------------------------------- Log::Close
\* allocation_pool_->Shutdown() and the entry queue's Shutdown() of
\* AppendThread::Shutdown.
CloseBegin ==
    /\ ~crashed /\ log.init_called
    /\ closer.pc = "idle"
    /\ closer' = [closer EXCEPT !.pc = "join"]
    /\ log' = [log EXCEPT !.pool_shutdown = TRUE]
    /\ entry_queue' = [entry_queue EXCEPT !.shutdown = TRUE]
    /\ batches' = [i \in 1..Len(batches) |->
                     IF /\ ~entry_queue.shutdown
                        /\ \E k \in 1..Len(entry_queue.list) : entry_queue.list[k] = i
                     THEN [batches[i] EXCEPT !.at_shutdown = TRUE]
                     ELSE batches[i]]
    /\ UNCHANGED <<prod, app, maint, cb_log, faults, reserves, replica, crashed>>

\* The join of the append thread, then the switch on log_state_.
CloseFinish ==
    /\ ~crashed
    /\ closer.pc = "join"
    /\ app.pc \in {"none", "done"}
    /\ \E f \in FaultChoices(CloseFaults) :
         LET R == CloseLocked(log, f)
         IN /\ Ran(R, f)
            /\ closer' = [pc |-> "idle", s |-> R.s,
                          reclosed |-> (log.log_state = kLogClosed)]
    /\ UNCHANGED <<entry_queue, batches, prod, app, maint, cb_log, reserves, replica>>

\* ------------------------------------------------------------ maintenance
\* The segments_to_delete of a Log::GC call, as sequence numbers.
RECURSIVE SeqsOf(_)
SeqsOf(segments) ==
    IF segments = <<>> THEN <<>> ELSE <<Head(segments).seq>> \o SeqsOf(Tail(segments))

\* A Log::GC call has released state_lock_ and has not returned yet.
GCRunning == maint.pending # <<>> \/ maint.s = "indexing"

\* Log::GC under state_lock_.  With nothing to delete the call returns OK; else
\* it goes on to delete the files of `pending`.
GCWith(retentions) ==
    /\ ~crashed /\ log.init_called
    /\ ~GCRunning
    /\ \E r \in retentions : \E dur \in {r[1]}, peers \in {r[2]} :
         \E R \in {GC(log, dur, peers)} :
            /\ Ran(R, NoFault)
            /\ maint' = IF R.s # OK THEN Maintenance(R.s, <<>>, -1, <<>>)
                        ELSE LET del == SeqsOf(GetSegmentsToGCUnlocked(log, dur, peers))
                             IN Maintenance(IF del = <<>> THEN OK ELSE "deleting",
                                            del, -1, <<>>)
    /\ UNCHANGED <<entry_queue, batches, prod, app, closer, cb_log, reserves, replica>>

CallGC == GCWith(RetentionValues \X RetentionValues)

\* Log::GC after the release of state_lock_: the next file is deleted, or the
\* call returns the error of DeleteFile.  After the last file the call goes on
\* to the index.
GCDeleteFile ==
    /\ ~crashed
    /\ maint.pending # <<>>
    /\ \E f \in FaultChoices({"delete"}) :
         \E R \in {DeleteFile(log, Head(maint.pending), f)} :
            /\ Ran(R, f)
            /\ maint' = IF R.s # OK THEN Maintenance(R.s, <<>>, -1, <<>>)
                        ELSE Maintenance(IF Tail(maint.pending) = <<>> THEN "indexing"
                                         ELSE "deleting",
                                         Tail(maint.pending), -1, <<>>)
    /\ UNCHANGED <<entry_queue, batches, prod, app, closer, cb_log, reserves, replica>>

\* The end of Log::GC, without state_lock_: reader_->GetMinReplicateIndex() and
\* log_index_->GC.  After a Close that reset reader_ the call dereferences a
\* null pointer.
GCIndex ==
    /\ ~crashed
    /\ maint.s = "indexing"
    /\ \E R \in {IF ~log.reader.live THEN Result(log, ABORT, FALSE)
                 ELSE Result(GCLogIndex(log), OK, FALSE)} :
          /\ Ran(R, NoFault)
          /\ maint' = Maintenance(R.s, <<>>, -1, <<>>)
    /\ UNCHANGED <<entry_queue, batches, prod, app, closer, cb_log, reserves, replica>>

\* Log::GetGCableDataSize returns a size, not a Status: the caller gets the
\* size (OK here) or the process aborts.
GetGCableDataSizeWith(retentions) ==
    /\ ~crashed /\ log.init_called
    /\ ~GCRunning
    /\ \E r \in retentions : \E dur \in {r[1]}, peers \in {r[2]} :
         LET R == GetGCableDataSize(log, dur, peers)
         IN /\ Ran(R, NoFault)
            /\ maint' = IF R.s # OK THEN Maintenance(R.s, <<>>, -1, <<>>)
                        ELSE Maintenance(OK, <<>>, GCableDataSize(log, dur, peers), <<>>)
    /\ UNCHANGED <<entry_queue, batches, prod, app, closer, cb_log, reserves, replica>>

CallGetGCableDataSize == GetGCableDataSizeWith(RetentionValues \X RetentionValues)

CallGetReplaySizeMap ==
    /\ ~crashed /\ log.init_called
    /\ ~GCRunning
    /\ LET R == GetReplaySizeMap(log)
       IN /\ Ran(R, NoFault)
          /\ maint' = IF R.s # OK THEN Maintenance(R.s, <<>>, -1, <<>>)
                      ELSE Maintenance(OK, <<>>, -1, ReplaySizeMap(log))
    /\ UNCHANGED <<entry_queue, batches, prod, app, closer, cb_log, reserves, replica>>

\* ----------------------------------------------------------------- reopen
\* A LogEntryBatch of a Log object that is gone: what is left of it is the
\* frame it may have in a segment file.
Gone(b) == [b EXCEPT !.state = "gone", !.appended = "gone", !.group = 0,
                     !.at_shutdown = FALSE, !.buffer = 0, !.callback = FALSE,
                     !.replicates = FALSE, !.ready_lock = FALSE]

\* The Log object is gone (the process aborted, or Close returned and the
\* object was destroyed) and Log::Open constructs the next one over the same
\* WAL directory; its Init runs in Open above.
Reopen ==
    /\ log.init_called
    /\ log.opens < MaxOpens
    /\ crashed \/ (closer.pc = "idle" /\ closer.s # "none" /\ ~GCRunning)
    /\ log' = [InitLog(log.async_preallocate_segments) EXCEPT
                   !.files = log.files, !.index = log.index,
                   !.opens = log.opens + 1]
    /\ entry_queue' = [list |-> <<>>, size |-> 0, shutdown |-> FALSE]
    /\ prod' = [p \in Producers |-> IdleProducer("none")]
    /\ app' = [pc |-> "none", entry_batches |-> <<>>, i |-> 1, is_all_commits |-> TRUE,
               shutting_down |-> FALSE, groups |-> 0, group |-> NoGroup]
    /\ closer' = [pc |-> "idle", s |-> "none", reclosed |-> FALSE]
    /\ maint' = Maintenance("none", <<>>, -1, <<>>)
    /\ batches' = [i \in 1..Len(batches) |-> Gone(batches[i])]
    /\ cb_log' = <<>>
    /\ crashed' = FALSE
    /\ UNCHANGED <<faults, reserves, replica>>

\* ------------------------------------------------------------------- Next
\* The append pipeline and the lifecycle.
Next ==
    \/ Open
    \/ \E p \in Producers : ReserveBegin(p)
    \/ \E p \in Producers : ReservePut(p)
    \/ \E p \in Producers : AsyncAppend(p)
    \/ AppenderDrain
    \/ AppenderAppend
    \/ AppenderSync
    \/ AllocationTask
    \/ CloseBegin
    \/ CloseFinish

Spec == Init /\ [][Next]_vars

\* The pipeline as consensus drives it: the callbacks of REPLICATE and COMMIT
\* batches end the process when the status is not OK.
AppenderAppendFatal == AppenderAppendWith(TRUE)

AppenderSyncFatal == AppenderSyncWith(TRUE)

NextFatal ==
    \/ Open
    \/ \E p \in Producers : ReserveBegin(p)
    \/ \E p \in Producers : ReservePut(p)
    \/ \E p \in Producers : AsyncAppend(p)
    \/ AppenderDrain
    \/ AppenderAppendFatal
    \/ AppenderSyncFatal
    \/ AllocationTask
    \/ CloseBegin
    \/ CloseFinish

SpecFatal == Init /\ [][NextFatal]_vars

\* The pipeline with AsyncAppend taken step by step.
NextBatch ==
    \/ Open
    \/ \E p \in Producers : ReserveBegin(p)
    \/ \E p \in Producers : ReservePut(p)
    \/ \E p \in Producers : AsyncAppendSerialize(p)
    \/ \E p \in Producers : AsyncAppendSetCallback(p)
    \/ \E p \in Producers : AsyncAppendMarkReady(p)
    \/ AppenderDrain
    \/ AppenderAppend
    \/ AppenderSync
    \/ AllocationTask
    \/ CloseBegin
    \/ CloseFinish

SpecBatch == Init /\ [][NextBatch]_vars

\* The pipeline with the allocation pool as a thread of its own: a DoAppend
\* that starts an allocation waits in RollOver until the pool has run the
\* task.
NextClose ==
    \/ Open
    \/ \E p \in Producers : ReserveBegin(p)
    \/ \E p \in Producers : ReservePut(p)
    \/ \E p \in Producers : AsyncAppend(p)
    \/ AppenderDrain
    \/ AppenderAppendInline
    \/ AppenderSubmitAllocation
    \/ AppenderRollOver
    \/ AppenderSync
    \/ AllocationTask
    \/ CloseBegin
    \/ CloseFinish

\* Every thread keeps running: the append thread, the producers (a batch
\* that was reserved is marked Ready), the thread of the allocation pool and
\* the thread that called Close.
FairnessClose ==
    /\ WF_vars(AppenderDrain \/ AppenderAppendInline \/ AppenderSubmitAllocation
                   \/ AppenderRollOver \/ AppenderSync)
    /\ \A p \in Producers : WF_vars(ReservePut(p) \/ AsyncAppend(p))
    /\ WF_vars(AllocationTask)
    /\ WF_vars(CloseFinish)

FairClose == Init /\ [][NextClose]_vars /\ FairnessClose

\* The pipeline and a thread that calls AllocateSegmentAndRollOver.
NextRoll ==
    \/ Next
    \/ AllocateSegmentAndRollOver
    \/ AllocateSegmentAndRollOverRoll

SpecRoll == Init /\ [][NextRoll]_vars

\* The pipeline together with the maintenance thread.
NextOps ==
    \/ Next
    \/ CallGC
    \/ GCDeleteFile
    \/ GCIndex
    \/ CallGetGCableDataSize
    \/ CallGetReplaySizeMap

SpecOps == Init /\ [][NextOps]_vars

\* The pipeline, GC and the reopening of the log over the directory it left.
NextLife ==
    \/ Next
    \/ CallGC
    \/ GCDeleteFile
    \/ GCIndex
    \/ Reopen

SpecLife == Init /\ [][NextLife]_vars

\* ------------------------------------------------ GC over given registries
\* The footer of the closed segment at position q of a directory in which the
\* segments of `empties` hold a COMMIT entry and no REPLICATE entry, and every
\* other closed segment holds one REPLICATE entry, the indexes ascending.
FooterAt(q, empties) ==
    IF q \in empties
    THEN [present |-> TRUE, num_entries |-> 1,
          min_replicate_index |-> -1, max_replicate_index |-> -1]
    ELSE LET index == Cardinality({r \in 1..q : r \notin empties})
         IN [present |-> TRUE, num_entries |-> 1,
             min_replicate_index |-> index, max_replicate_index |-> index]

\* The segment file at position q of n: the last one is the active segment; the
\* segment `truncated` (0: none) was left without a footer by a log that was
\* not closed.
FileAt(q, n, empties, truncated) ==
    [header |-> TRUE, frames |-> <<>>,
     size |-> IF q = n THEN 0 ELSE IF q \in empties THEN 1 ELSE 2,
     footers |-> IF q = n \/ q = truncated THEN 0 ELSE 1,
     footer |-> IF q = n \/ q = truncated THEN NoFooter ELSE FooterAt(q, empties)]

\* A Writing log over such a directory, its registry as LogReader::Open and
\* SwitchToAllocatedSegment leave it.
LogOver(n, empties, truncated) ==
    LET files == [q \in 1..n |-> FileAt(q, n, empties, truncated)]
    IN [InitLog(FALSE) EXCEPT
           !.log_state = kLogWriting,
           !.init_called = TRUE,
           !.files = files,
           !.reader = [live |-> TRUE,
                       segments |-> [q \in 1..n |->
                           Readable(q, files[q].footer, files[q].size)]],
           !.log_index = TRUE,
           !.active_segment = [seq |-> n, closed |-> FALSE],
           !.active_segment_sequence_number = n,
           !.allocation_status = OK,
           !.footer_builder = EmptyFooterBuilder]

\* The registries GC and the size queries are run on: 1..MaxSegments segments;
\* in those of up to twice log_min_segments_to_retain segments, any of the
\* first three closed ones without REPLICATE entries, and possibly one of the
\* first two without a footer.
InitGC ==
    /\ \E n \in 1..MaxSegments :
         \E empties \in SUBSET (1..Min(n - 1, 3)) :
            \E truncated \in 0..Min(n - 1, 2) :
               /\ n > 2 * FLAGS_log_min_segments_to_retain =>
                      (empties = {} /\ truncated = 0)
               /\ log = LogOver(n, empties, truncated)
    /\ entry_queue = [list |-> <<>>, size |-> 0, shutdown |-> FALSE]
    /\ batches = <<>>
    /\ prod = [p \in Producers |-> IdleProducer("none")]
    /\ app = [pc |-> "drain", entry_batches |-> <<>>, i |-> 1, is_all_commits |-> TRUE,
              shutting_down |-> FALSE, groups |-> 0, group |-> NoGroup]
    /\ closer = [pc |-> "idle", s |-> "none", reclosed |-> FALSE]
    /\ maint = Maintenance("none", <<>>, -1, <<>>)
    /\ cb_log = <<>>
    /\ faults = 0
    /\ reserves = 0
    /\ crashed = FALSE
    /\ replica = InitReplica

CallGCAnyRetention == GCWith(AllRetentions)

CallGetGCableDataSizeAnyRetention == GetGCableDataSizeWith(AllRetentions)

\* The maintenance thread alone, on each of the registries of InitGC.
NextGC ==
    \/ CallGCAnyRetention
    \/ GCDeleteFile
    \/ GCIndex
    \/ CallGetGCableDataSizeAnyRetention
    \/ CallGetReplaySizeMap

SpecGC == InitGC /\ [][NextGC]_vars

\* ------------------------------------------- the index over a reopened log
\* The WAL directory a log left that appended the REPLICATE ops 1..(1 + k), op 1
\* to segment 1 and the others to segment 2, rolled over once, and was then
\* closed (segment 2 has its footer) or went down without Close (it has none).
FilesLeft(k, closed) ==
    <<[header |-> TRUE, frames |-> <<1>>, size |-> 2, footers |-> 1,
       footer |-> [present |-> TRUE, num_entries |-> 1,
                   min_replicate_index |-> 1, max_replicate_index |-> 1]],
      [header |-> TRUE, frames |-> [i \in 1..k |-> i + 1], size |-> 2 * k,
       footers |-> IF closed THEN 1 ELSE 0,
       footer |-> IF closed
                  THEN [present |-> TRUE, num_entries |-> k,
                        min_replicate_index |-> 2, max_replicate_index |-> 1 + k]
                  ELSE NoFooter]>>

\* The index that log left: op 1 at the start of segment 1, op i + 1 the i-th
\* batch of segment 2.
IndexLeft(k) ==
    [i \in 1..(1 + k) |->
        IF i = 1 THEN [segment_sequence_number |-> 1, offset_in_segment |-> 0]
        ELSE [segment_sequence_number |-> 2, offset_in_segment |-> 2 * (i - 2)]]

\* The batches of that log: appended with OK, their LogEntryBatch objects gone.
BatchesLeft(k) ==
    [i \in 1..(1 + k) |->
        [type |-> REPLICATE, bytes |-> 2, index |-> i, state |-> "gone",
         appended |-> "ok", group |-> 0, at_shutdown |-> FALSE,
         buffer |-> 0, callback |-> FALSE, replicates |-> FALSE, ready_lock |-> FALSE]]

\* The next Log over that directory after Log::Init: segment 3 is active.
LogReopenedOver(k, closed, async) ==
    LET L == [InitLog(async) EXCEPT !.files = FilesLeft(k, closed),
                                    !.index = IndexLeft(k),
                                    !.init_called = TRUE, !.opens = 2]
    IN LogInit(L, NoFault).log

InitIndex ==
    /\ \E k \in 1..MaxOpsLeft : \E closed \in BOOLEAN : \E async \in BOOLEAN :
          /\ log = LogReopenedOver(k, closed, async)
          /\ batches = BatchesLeft(k)
    /\ entry_queue = [list |-> <<>>, size |-> 0, shutdown |-> FALSE]
    /\ prod = [p \in Producers |-> IdleProducer("none")]
    /\ app = [pc |-> "drain", entry_batches |-> <<>>, i |-> 1, is_all_commits |-> TRUE,
              shutting_down |-> FALSE, groups |-> 0, group |-> NoGroup]
    /\ closer = [pc |-> "idle", s |-> "none", reclosed |-> FALSE]
    /\ maint = Maintenance("none", <<>>, -1, <<>>)
    /\ cb_log = <<>>
    /\ faults = 0
    /\ reserves = 0
    /\ crashed = FALSE
    /\ replica = InitReplica

\* Appends, rollovers and GCs on the reopened log.
NextIndexed ==
    \/ \E p \in Producers : ReserveBegin(p)
    \/ \E p \in Producers : ReservePut(p)
    \/ \E p \in Producers : AsyncAppend(p)
    \/ AppenderDrain
    \/ AppenderAppend
    \/ AppenderSync
    \/ AllocationTask
    \/ CallGC
    \/ GCDeleteFile
    \/ GCIndex

SpecIndex == InitIndex /\ [][NextIndexed]_vars

\* ------------------------------------------------------------ UpdateConsensus
INVALID_TERM == "INVALID_TERM"
PRECEDING_ENTRY_DIDNT_MATCH == "PRECEDING_ENTRY_DIDNT_MATCH"
kIndexError == "New operation's index does not follow the previous op's index"
kTermError == "New operation's term is not >= than the previous op's term"
kSoftMemoryLimit == "Soft memory limit exceeded"

OpIds == {MakeOpId(t, i) : t \in 1..MaxTerm, i \in 1..MaxIndex}

\* The sequences of at most n operation ids.
RECURSIVE OpSeqs(_)
OpSeqs(n) ==
    IF n = 0 THEN {<<>>}
    ELSE LET shorter == OpSeqs(n - 1)
         IN shorter \cup {Append(ops, id) : ops \in shorter, id \in OpIds}

\* The requests a caller can send: like the leaders the tests pretend to be,
\* a caller only names operations of terms up to its own.
Requests ==
    {[caller_term |-> t, preceding_id |-> p, ops |-> ops, committed_index |-> c] :
        t \in 1..MaxTerm, p \in OpIds, ops \in OpSeqs(MaxOps), c \in 1..(MaxIndex + 1)}

SentBy(req) ==
    /\ req.preceding_id.term <= req.caller_term
    /\ \A k \in 1..Len(req.ops) : req.ops[k].term <= req.caller_term

\* The last operation received from the leader of the current term.
LastReceivedCurrentLeader(r) == r.last_received_current_leader

\* The last operation the replica holds.
LastReceived(r) == MakeOpId(r.ops[Len(r.ops)], Len(r.ops))

\* The response carries the replica's status as it is when the call returns.
Respond(r, code) ==
    [r EXCEPT !.req = NoRequest,
              !.fresh = FALSE,
              !.resp = [code |-> code,
                        last_committed_idx |-> r.committed_index,
                        last_received |-> LastReceived(r),
                        last_received_current_leader |-> r.last_received_current_leader]]

\* The call fails as a whole: the response has an error and no status.
RespondError(r, message) ==
    [r EXCEPT !.req = NoRequest, !.fresh = FALSE, !.resp = [NoResponse EXCEPT !.code = message]]

\* The replica holds the operation: everything up to the committed index
\* counts as held, a pending operation is held if its term is the same.
IsOpCommittedOrPending(r, id) ==
    \/ id.index <= r.committed_index
    \/ id.index <= Len(r.ops) /\ r.ops[id.index] = id.term

\* The request is taken as it was sent, with the operations the replica
\* holds already.
KeepLeaderRequest(r, preceding_opid, messages) ==
    [preceding_opid |-> preceding_opid, messages |-> messages]

\* Operations the replica holds already are dropped from the front of ops[],
\* and the last one dropped becomes the preceding id.
RECURSIVE DeduplicateLeaderRequest(_, _, _)
DeduplicateLeaderRequest(r, preceding_opid, messages) ==
    IF messages # <<>> /\ IsOpCommittedOrPending(r, Head(messages))
    THEN DeduplicateLeaderRequest(r, Head(messages), Tail(messages))
    ELSE [preceding_opid |-> preceding_opid, messages |-> messages]

CheckOpInSequence(previous, current) ==
    IF current.index # previous.index + 1 THEN kIndexError
    ELSE IF current.term < previous.term THEN kTermError
    ELSE OK

RECURSIVE CheckSequence(_, _)
CheckSequence(previous, messages) ==
    IF messages = <<>> THEN OK
    ELSE LET s == CheckOpInSequence(previous, Head(messages))
         IN IF s # OK THEN s ELSE CheckSequence(Head(messages), Tail(messages))

\* The pending operations after `index` are aborted, whether or not they
\* have left the prepare queue.
\* The operations of r after `index`; `stuck` tells which of them are still in
\* the prepare queue.
OpsAfter(r, index) ==
    [k \in 1..(Len(r.ops) - index) |->
        [id |-> MakeOpId(r.ops[index + k], index + k), stuck |-> index + k > r.prepared]]

\* Only operations that have left the prepare queue can be aborted.
AbortOpsAfterUnlessStuck(r, index) ==
    IF Len(r.ops) > Max(r.prepared, index) THEN r
    ELSE [r EXCEPT !.ops = SubSeq(@, 1, index),
                   !.prepared = Min(@, index),
                   !.aborted = OpsAfter(r, index)]

AbortOpsAfter(r, index) ==
    [r EXCEPT !.ops = SubSeq(@, 1, index),
              !.prepared = Min(@, index),
              !.aborted = OpsAfter(r, index)]

\* The committed index is set to what the request allows, whatever it was.
SetCommittedIndex(r, index) ==
    [r EXCEPT !.committed_index = index]

\* The committed index only moves forward.
AdvanceCommittedIndex(r, index) ==
    [r EXCEPT !.committed_index = Max(@, index)]

RECURSIVE TermsOf(_)
TermsOf(messages) ==
    IF messages = <<>> THEN <<>> ELSE <<Head(messages).term>> \o TermsOf(Tail(messages))

\* The last operation the request delivers.
LastFromLeader(d) ==
    IF d.messages = <<>> THEN d.preceding_opid ELSE d.messages[Len(d.messages)]

HandleLeaderRequestTerm(r, req) ==
    IF req.caller_term > r.current_term
    THEN [r EXCEPT !.current_term = req.caller_term,
                   !.role = FOLLOWER,
                   !.last_received_current_leader = MakeOpId(0, 0)]
    ELSE r

\* A preceding id the replica does not hold: an operation of another term
\* at that index is aborted with all that follow it.
EnforceLogMatchingProperty(r, req) ==
    IF req.preceding_id.index <= Len(r.ops)
    THEN AbortOpsAfter(r, req.preceding_id.index - 1)
    ELSE r

AppendOperations(r, req, d) ==
    [r EXCEPT !.ops = @ \o TermsOf(d.messages),
              !.last_received_current_leader =
                  IF req.ops = <<>> THEN @ ELSE LastFromLeader(d)]

\* The request was accepted by the checks: operations of other terms at the
\* indexes it delivers are replaced, what the leader has committed up to the
\* preceding id is committed, and then the new operations are admitted.
\* The bound of KUDU-639: whatever the replica holds may be committed.
ApplyUpToLastReceived(r, req, d) == Min(req.committed_index, Len(r.ops))

\* How far the request lets the replica commit: not beyond the last
\* operation it delivers.
ApplyUpTo(r, req, d) == Min(req.committed_index, LastFromLeader(d).index)

\* The operations in sequence at the front of the request are kept.
RejectKeepingPrefix(r, d, s) ==
    RespondError(IF /\ CheckOpInSequence(d.preceding_opid, Head(d.messages)) = OK
                    /\ Head(d.messages).index = Len(r.ops) + 1
                 THEN [r EXCEPT !.ops = Append(@, Head(d.messages).term)]
                 ELSE r,
                 s)

\* A request with operations out of sequence changes nothing.
RejectOutOfSequence(r, d, s) == RespondError(r, s)

\* Nothing is committed before the new operations are admitted.
NoEarlyCommit(r, req, d) == r

\* What the leader has committed up to the preceding id is committed before
\* the new operations are looked at.
EarlyCommit(r, req, d) ==
    AdvanceCommittedIndex(r, Min(req.committed_index, d.preceding_opid.index))

UpdateReplica(r, req, d, memory_pressure) ==
    LET replaced == IF d.messages # <<>> /\ Head(d.messages).index <= Len(r.ops)
                    THEN AbortOpsAfter(r, d.preceding_opid.index)
                    ELSE r
        early == EarlyCommit(replaced, req, d)
    IN IF d.messages # <<>> /\ memory_pressure
       THEN RespondError(early, kSoftMemoryLimit)
       ELSE LET appended == AppendOperations(early, req, d)
            IN Respond(AdvanceCommittedIndex(appended, ApplyUpTo(appended, req, d)), OK)

UpdateConsensus(r, req, memory_pressure) ==
    IF req.caller_term < r.current_term THEN Respond(r, INVALID_TERM)
    ELSE LET r1 == HandleLeaderRequestTerm(r, req)
             d == DeduplicateLeaderRequest(r1, req.preceding_id, req.ops)
             s == CheckSequence(d.preceding_opid, d.messages)
         IN IF ~IsOpCommittedOrPending(r1, req.preceding_id)
            THEN Respond(EnforceLogMatchingProperty(r1, req), PRECEDING_ENTRY_DIDNT_MATCH)
            ELSE IF s # OK THEN RejectOutOfSequence(r1, d, s)
            ELSE UpdateReplica(r1, req, d, memory_pressure)

WalVars == <<log, entry_queue, batches, prod, app, closer, maint, cb_log, faults, reserves,
             crashed>>

\* A caller clears the response it got and sends one of `requests`; the
\* replica serves one call at a time, and `aborted` is kept per call.
SendUpdateConsensusFrom(requests) ==
    /\ replica.req = NoRequest
    /\ \E req \in requests :
          /\ SentBy(req)
          /\ replica' = [replica EXCEPT !.req = req, !.resp = NoResponse, !.aborted = <<>>]
    /\ UNCHANGED WalVars

SendUpdateConsensus == SendUpdateConsensusFrom(Requests)

\* The replica serves the request, under memory pressure or not.
HandleUpdateConsensus ==
    /\ replica.req # NoRequest
    /\ \E memory_pressure \in BOOLEAN :
          replica' = UpdateConsensus(replica, replica.req, memory_pressure)
    /\ UNCHANGED WalVars

\* The requests of a caller that sends its operations in sequence.
LeaderRequests == {req \in Requests : CheckSequence(req.preceding_id, req.ops) = OK}

SendLeaderRequest == SendUpdateConsensusFrom(LeaderRequests)

\* The next operation leaves the prepare queue: it gets the row lock once
\* the operation before it was applied.
PrepareOp ==
    /\ replica.prepared = Len(replica.applied)
    /\ replica.prepared < Len(replica.ops)
    /\ replica' = [replica EXCEPT !.prepared = @ + 1]
    /\ UNCHANGED WalVars

\* A prepared operation is applied once it is committed.
ApplyOp ==
    /\ Len(replica.applied) < replica.prepared
    /\ Len(replica.applied) < replica.committed_index
    /\ replica' = [replica EXCEPT !.applied =
                       Append(@, MakeOpId(replica.ops[Len(@) + 1], Len(@) + 1))]
    /\ UNCHANGED WalVars

\* The COMMIT message of an applied operation reaches the WAL.
WriteCommitMsg ==
    /\ replica.wal_committed_index < Len(replica.applied)
    /\ replica' = [replica EXCEPT !.wal_committed_index = @ + 1]
    /\ UNCHANGED WalVars

\* A restarted replica that learns the committed index from its leader only.
BootstrapWithoutCommittedIndex(r) ==
    [r EXCEPT !.committed_index = 0,
              !.prepared = r.wal_committed_index,
              !.applied = SubSeq(@, 1, r.wal_committed_index),
              !.aborted = <<>>,
              !.last_received_current_leader = MakeOpId(0, 0),
              !.fresh = TRUE,
              !.role = FOLLOWER,
              !.req = NoRequest,
              !.resp = NoResponse]

\* What a restarted replica finds in its WAL: the operations, and the
\* COMMIT messages that tell which of them are committed and applied.
Bootstrap(r) ==
    [r EXCEPT !.committed_index = r.wal_committed_index,
              !.prepared = r.wal_committed_index,
              !.applied = SubSeq(@, 1, r.wal_committed_index),
              !.aborted = <<>>,
              !.last_received_current_leader = MakeOpId(0, 0),
              !.fresh = TRUE,
              !.role = FOLLOWER,
              !.req = NoRequest,
              !.resp = NoResponse]

\* The tablet server is shut down and restarted between two calls.
Restart ==
    /\ replica.req = NoRequest
    /\ ~replica.fresh
    /\ replica' = Bootstrap(replica)
    /\ UNCHANGED WalVars

NextConsensus ==
    \/ SendUpdateConsensus
    \/ HandleUpdateConsensus

\* The log below the replica plays no part here.
InitConsensus == Init /\ log = InitLog(TRUE)

SpecConsensus == InitConsensus /\ [][NextConsensus]_vars

\* The replica with its prepare queue, its applies and its restarts, under
\* callers that send their operations in sequence.
NextReplica ==
    \/ SendLeaderRequest
    \/ HandleUpdateConsensus
    \/ PrepareOp
    \/ ApplyOp
    \/ WriteCommitMsg
    \/ Restart

SpecReplica == InitConsensus /\ [][NextReplica]_vars

\* The replica while its server stays up: the prepare queue and the applies
\* run on threads of their own.
NextSteady ==
    \/ SendLeaderRequest
    \/ HandleUpdateConsensus
    \/ PrepareOp
    \/ ApplyOp
    \/ WriteCommitMsg

FairReplica ==
    /\ InitConsensus
    /\ [][NextSteady]_vars
    /\ WF_vars(PrepareOp)
    /\ WF_vars(ApplyOp)

\* ------------------------------------------------------------ the replica as leader
kNotYetCommitted == "Leader has not yet committed an operation in its own term"

\* The test sets or clears follower_reject_update_consensus_requests.
SetFlag(f) ==
    /\ replica' = [replica EXCEPT !.rejecting =
                       IF f \in @ THEN @ \ {f} ELSE @ \cup {f}]
    /\ UNCHANGED WalVars

\* The server wins an election (the others vote even when they reject its
\* requests) and replicates the NO_OP of its new term.
StartElection ==
    /\ replica.req = NoRequest
    /\ replica.current_term < MaxTerm
    /\ Len(replica.ops) < MaxIndex
    /\ replica' = [replica EXCEPT !.current_term = @ + 1,
                                  !.role = LEADER,
                                  !.ops = Append(@, replica.current_term + 1),
                                  !.last_received_current_leader = MakeOpId(0, 0)]
    /\ UNCHANGED WalVars

\* The leader has committed some operation.
HasCommittedOp(r) == r.committed_index > 0

\* The leader has committed an operation of its own term.
HasCommittedOpInOwnTerm(r) ==
    \E i \in 1..r.committed_index : r.ops[i] = r.current_term

\* An operation is on a majority of the config when, with the leader, more
\* than half of its members have it.
OnMajority(r, match, i) ==
    2 * (1 + Cardinality({g \in r.config.peers : match[g] >= i}))
        > 1 + Cardinality(r.config.peers)

\* The highest index of the leader's own term that is on a majority.
MajorityReplicated(r, match) ==
    LET own == {i \in 1..Len(r.ops) : r.ops[i] = r.current_term /\ OnMajority(r, match, i)}
    IN IF own = {} THEN 0 ELSE CHOOSE i \in own : \A j \in own : j <= i

\* A server that does not reject takes the leader's operations; what is then
\* on a majority is committed, and a pending config that is committed
\* becomes the config.
ReplicateTo(f) ==
    /\ replica.role = LEADER
    /\ f \in replica.config.peers
    /\ f \notin replica.rejecting
    /\ replica.match[f] < Len(replica.ops)
    /\ LET match == [replica.match EXCEPT ![f] = Len(replica.ops)]
           committed == Max(replica.committed_index, MajorityReplicated(replica, match))
           done == /\ replica.pending_config # NoConfig
                   /\ replica.pending_config.opid_index <= committed
       IN replica' = [replica EXCEPT
                         !.match = match,
                         !.committed_index = committed,
                         !.config = IF done THEN replica.pending_config ELSE @,
                         !.pending_config = IF done THEN NoConfig ELSE @]
    /\ UNCHANGED WalVars

\* A client asks the leader to remove server f from the config, while no
\* other change of the config is pending.
SendChangeConfig(f) ==
    /\ replica.role = LEADER
    /\ replica.cc_call = 0
    /\ replica.pending_config = NoConfig
    /\ f \in replica.config.peers
    /\ replica' = [replica EXCEPT !.cc_call = f, !.cc_status = "none"]
    /\ UNCHANGED WalVars

ChangeConfig(r, f) ==
    IF ~HasCommittedOpInOwnTerm(r) THEN [r EXCEPT !.cc_call = 0, !.cc_status = kNotYetCommitted]
    ELSE [r EXCEPT !.cc_call = 0,
                   !.cc_status = OK,
                   !.ops = Append(@, r.current_term),
                   !.pending_config = RaftConfig(Len(r.ops) + 1, r.config.peers \ {f})]

\* The leader serves the ChangeConfig call.
HandleChangeConfig ==
    /\ replica.cc_call # 0
    /\ Len(replica.ops) < MaxIndex \/ ~HasCommittedOpInOwnTerm(replica)
    /\ replica' = ChangeConfig(replica, replica.cc_call)
    /\ UNCHANGED WalVars

NextLeader ==
    \/ \E f \in Followers : SetFlag(f)
    \/ StartElection
    \/ \E f \in Followers : ReplicateTo(f)
    \/ \E f \in Followers : SendChangeConfig(f)
    \/ HandleChangeConfig

SpecLeader == InitConsensus /\ [][NextLeader]_vars

\* The pipeline with the scheduling every thread of the process gets: the
\* append thread keeps running, a producer that reserved a batch goes on to
\* AsyncAppend, and a producer whose BlockingPut may return does return.
Fairness ==
    /\ WF_vars(AppenderDrain \/ AppenderAppend \/ AppenderSync)
    /\ \A p \in Producers : WF_vars(ReservePut(p) \/ AsyncAppend(p))

FairSpec == Spec /\ Fairness

\* ----------------------------------------------------------------- claims
BatchIds == 1..Len(batches)

\* The callbacks run so far for batch id.
CallbacksOf(id) == {k \in 1..Len(cb_log) : cb_log[k][1] = id}

\* The batches of the drained group g.
GroupOf(g) == {id \in BatchIds : batches[id].group = g}

\* C1: callbacks are invoked in Reserve order: a callback of a batch is never
\* invoked after a callback of a batch reserved later, whatever DoAppend and
\* Sync return.
C1_CallbackOrderIsReserveOrder ==
    \A i, j \in 1..Len(cb_log) : i < j => cb_log[i][1] <= cb_log[j][1]

\* C2: frames are written in Reserve order: over the whole log, within each
\* segment file, and across segment files in sequence-number order.
C2_FramesInReserveOrder ==
    /\ \A i, j \in 1..Len(log.write_log) :
           i < j => log.write_log[i] < log.write_log[j]
    /\ \A q \in DOMAIN log.files :
           \A i, j \in 1..Len(log.files[q].frames) :
               i < j => log.files[q].frames[i] < log.files[q].frames[j]
    /\ \A q, r \in DOMAIN log.files :
           q < r => \A i \in 1..Len(log.files[q].frames),
                       j \in 1..Len(log.files[r].frames) :
                       log.files[q].frames[i] < log.files[r].frames[j]

\* C2 witness: the appender waits for an earlier batch that is not Ready while
\* a batch reserved after it, in the same drained group, is already Ready.
C2_Witness ==
    /\ app.pc = "append"
    /\ \E i, j \in 1..Len(app.entry_batches) :
           /\ i < j /\ app.i = i
           /\ batches[app.entry_batches[i]].state = kEntryReserved
           /\ batches[app.entry_batches[j]].state = kEntryReady

\* C3: the callback of a batch is one-shot: never invoked twice, and invoked
\* once for every batch that was marked Ready by the time the append thread
\* has exited.
C3_CallbackExactlyOnce ==
    /\ \A id \in BatchIds : Cardinality(CallbacksOf(id)) <= 1
    /\ app.pc = "done" =>
           \A id \in BatchIds :
               batches[id].state # kEntryReserved => Cardinality(CallbacksOf(id)) = 1

\* C4 as stated: a callback invoked with OK means the batch and every non-empty
\* batch reserved before it are written to a segment and covered by a completed
\* Sync.
C4_OkImpliesAllEarlierDurable ==
    \A k \in 1..Len(cb_log) :
        cb_log[k][2] = OK =>
            \A j \in 1..cb_log[k][1] :
                batches[j].bytes > 0 =>
                    /\ \E w \in 1..Len(log.write_log) : log.write_log[w] = j
                    /\ j \in log.covered

\* The batch was written to a segment.
Written(id) == \E w \in 1..Len(log.write_log) : log.write_log[w] = id

\* C4 amended: a callback invoked with OK means that the batch's own DoAppend
\* returned OK, that every batch reserved before it has already been passed to
\* DoAppend, that the batch (if not empty) is in a segment, and, unless every
\* batch of its drained group is a COMMIT batch, that a completed Sync covers it.
C4_OkImpliesAppendedAndGroupSynced ==
    \A k \in 1..Len(cb_log) :
        cb_log[k][2] = OK =>
            LET id == cb_log[k][1] IN
            /\ batches[id].appended = "ok"
            /\ \A j \in 1..id : batches[j].appended # "no"
            /\ batches[id].bytes > 0 => Written(id)
            /\ (/\ batches[id].bytes > 0
                /\ \E j \in GroupOf(batches[id].group) : batches[j].type # COMMIT)
                   => id \in log.covered

\* C4 witness: a batch reserved second got OK in a group with a non-COMMIT
\* batch, after an earlier batch was appended.
C4_Witness ==
    \E k \in 1..Len(cb_log) :
        /\ cb_log[k][2] = OK /\ cb_log[k][1] >= 2
        /\ batches[cb_log[k][1]].bytes > 0
        /\ cb_log[k][1] \in log.covered
        /\ \E j \in GroupOf(batches[cb_log[k][1]].group) : batches[j].type # COMMIT

\* C5: a finished group got exactly one Sync from the appender loop, issued
\* after all its batches were passed to DoAppend, if it holds a non-COMMIT
\* batch, and none if all its batches are COMMIT batches; no Sync is issued
\* while batches of the group are still to be appended.
C5_OneSyncPerGroupUnlessAllCommits ==
    /\ app.pc = "append" => app.group.syncs = 0
    /\ (app.pc \in {"drain", "done"} /\ app.groups > 0) =>
           IF \E k \in 1..Len(app.group.ids) : batches[app.group.ids[k]].type # COMMIT
           THEN /\ app.group.syncs = 1
                /\ app.group.synced_after = Len(app.group.ids)
                /\ \A k \in 1..Len(app.group.ids) :
                       batches[app.group.ids[k]].appended # "no"
           ELSE app.group.syncs = 0

\* C5 witness: a finished group of a COMMIT batch and a later non-COMMIT batch.
C5_Witness ==
    /\ app.pc = "drain" /\ app.groups > 0
    /\ Len(app.group.ids) >= 2
    /\ batches[app.group.ids[1]].type = COMMIT
    /\ app.group.syncs = 1

\* C6: a Reserve made while the log is shutting down (the entry queue was shut
\* down by Close and the lifecycle state is still Writing) passes the state
\* check, and its BlockingPut on the shut-down queue makes it return
\* ServiceUnavailable("WAL is shutting down") with nothing enqueued.
C6_ReserveDuringShutdownFails ==
    [][\A p \in Producers :
          /\ (/\ prod[p].pc = "idle" /\ prod'[p] # prod[p]
              /\ entry_queue.shutdown /\ log.log_state = kLogWriting)
                 => (prod'[p].pc = "put" /\ ~crashed')
          /\ (/\ prod[p].pc = "put" /\ prod'[p] # prod[p]
              /\ entry_queue.shutdown)
                 => /\ prod'[p].pc = "idle"
                    /\ prod'[p].s = kLogShutdownStatus
                    /\ entry_queue' = entry_queue
                    /\ batches' = batches]_vars

\* C6 witness: a Reserve returned the shutdown status.
C6_Witness ==
    \E p \in Producers : prod[p].pc = "idle" /\ prod[p].s = kLogShutdownStatus

\* C7 as stated: once the append thread has exited, every batch that was in
\* the entry queue when the queue was shut down has had its callback invoked
\* with the shutdown status.
C7_QueuedAtShutdownGetShutdownStatus ==
    app.pc = "done" =>
        \A id \in BatchIds :
            batches[id].at_shutdown =>
                \E k \in CallbacksOf(id) : cb_log[k][2] = kLogShutdownStatus

\* C7 amended: the batches that are in the entry queue when it is shut down are
\* drained and passed to DoAppend like any others, and their callbacks run with
\* the outcome of the append and the Sync; no callback is ever invoked with the
\* shutdown status, which only Reserve returns.
C7_QueuedAtShutdownAreAppended ==
    /\ \A k \in 1..Len(cb_log) : cb_log[k][2] # kLogShutdownStatus
    /\ app.pc = "done" =>
           \A id \in BatchIds :
               batches[id].at_shutdown =>
                   /\ batches[id].appended # "no"
                   /\ CallbacksOf(id) # {}
                   /\ batches[id].appended = "ok" =>
                          (batches[id].bytes > 0 => Written(id))

\* C7 witness: the append thread has exited and a batch that was queued at
\* shutdown was written and got OK.
C7_Witness ==
    /\ app.pc = "done"
    /\ \E id \in BatchIds :
           /\ batches[id].at_shutdown
           /\ Written(id)
           /\ \E k \in CallbacksOf(id) : cb_log[k][2] = OK

\* C8: no batch enters the entry queue while the queue holds its byte budget
\* or more, and a Reserve waiting in BlockingPut returns in the end (with OK
\* or, after a shutdown, with the shutdown status) while the process lives.
C8_ReserveBlocksWhenFullAndReturns ==
    /\ [][\A p \in Producers :
             (prod[p].pc = "put" /\ prod'[p].pc = "reserved") =>
                 /\ entry_queue.size < group_commit_queue_size_bytes
                 /\ ~entry_queue.shutdown
                 /\ prod'[p].s = OK]_vars
    /\ \A p \in Producers :
           (prod[p].pc = "put") ~>
               (\/ prod[p].pc = "reserved" /\ prod[p].s = OK
                \/ prod[p].pc = "idle" /\ prod[p].s = kLogShutdownStatus
                \/ crashed)

\* C8 witness: a Reserve waits on a full queue that was not shut down.
C8_Witness ==
    \E p \in Producers :
        /\ prod[p].pc = "put"
        /\ entry_queue.size >= group_commit_queue_size_bytes
        /\ ~entry_queue.shutdown

\* C9: Close on a Closed log changes nothing (not the lifecycle state, the
\* segment files and their footers, the reader, nor the entry queue) and
\* returns OK.
C9_CloseIsIdempotent ==
    [][(log.log_state = kLogClosed /\ closer' # closer) =>
          /\ log' = log
          /\ entry_queue' = entry_queue
          /\ batches' = batches
          /\ closer'.pc = "idle" => closer'.s = OK]_vars

\* C9 witness: a Close that began on a Closed log has returned OK.
C9_Witness ==
    /\ log.log_state = kLogClosed
    /\ closer.pc = "idle" /\ closer.reclosed /\ closer.s = OK

\* C10 as stated: an operation invoked while the lifecycle state is not
\* Writing reports IllegalState to its caller and leaves the log unchanged.
C10_NonWritingGivesIllegalState ==
    [][log.log_state # kLogWriting =>
          /\ \A p \in Producers :
                 (prod[p].pc \in {"idle", "reserved"} /\ prod'[p] # prod[p]) =>
                     (prod'[p].s = IllegalState /\ ~crashed' /\ log' = log)
          /\ (maint.pending = <<>> /\ maint' # maint) =>
                 (maint'.s = IllegalState /\ ~crashed' /\ log' = log)
          /\ (closer.pc = "join" /\ closer'.pc = "idle"
                 /\ log.log_state = kLogInitialized) =>
                 (closer'.s = IllegalState /\ log' = log)]_vars

\* C10 amended: Reserve, AsyncAppend, GC, GetGCableDataSize and
\* GetReplaySizeMap on a log that is not Writing fail a CHECK: the process
\* aborts, no status reaches the caller, and the log is not touched.  Only
\* Close reports IllegalState, on a log that never reached Writing, after it
\* has shut down the allocation pool and the entry queue; the lifecycle state
\* stays Initialized.
C10_NonWritingAbortsExceptClose ==
    [][log.log_state # kLogWriting =>
          /\ \A p \in Producers :
                 (prod[p].pc \in {"idle", "reserved"} /\ prod'[p] # prod[p]) =>
                     /\ crashed' /\ prod'[p].s = ABORT
                     /\ log' = log /\ entry_queue' = entry_queue /\ batches' = batches
          /\ (maint.pending = <<>> /\ maint' # maint) =>
                 (crashed' /\ maint'.s = ABORT /\ log' = log)
          /\ (closer.pc = "join" /\ closer'.pc = "idle"
                 /\ log.log_state = kLogInitialized) =>
                 /\ closer'.s = IllegalState
                 /\ log' = log
                 /\ log.pool_shutdown /\ entry_queue.shutdown]_vars

\* C10 witness: GC or a size query on a Closed log has aborted the process.
C10_Witness ==
    /\ log.log_state = kLogClosed
    /\ crashed /\ maint.s = ABORT

\* The sequence numbers of adjacent segments differ by one.
Contiguous(segments) ==
    \A i \in 1..(Len(segments) - 1) : segments[i + 1].seq = segments[i].seq + 1

\* The segment files of the directory that a reader opens.
SegmentFiles(L) == {q \in DOMAIN L.files : L.files[q].header}

\* The highest sequence number among the segment files, 0 without any.
LastSeq(L) ==
    IF SegmentFiles(L) = {} THEN 0
    ELSE CHOOSE q \in SegmentFiles(L) : \A r \in SegmentFiles(L) : r <= q

\* A step in which Log::Init ran to its end.
Opened == ~log.init_called /\ log'.init_called /\ log'.log_state = kLogWriting

C17_RegistrySegmentsHaveFiles ==
    \A i \in 1..Len(log.reader.segments) :
        log.reader.segments[i].seq \in DOMAIN log.files

\* C17 witness: GC has deleted the file of a segment it had trimmed, and then
\* failed to delete the next one.
C17_Witness ==
    /\ maint.s = IOError
    /\ log.reader.live /\ log.reader.segments # <<>>
    /\ \E q \in 1..log.active_segment_sequence_number :
           /\ q \notin DOMAIN log.files
           /\ q + 1 \in DOMAIN log.files
           /\ q + 1 < log.reader.segments[1].seq

\* The segments of the registry that are open for writing: the active segment,
\* until WriteFooterAndClose has closed it.
WritableSegments(L) ==
    {i \in 1..Len(L.reader.segments) :
        /\ L.reader.segments[i].seq = L.active_segment.seq
        /\ ~L.active_segment.closed}

\* The segments of the registry whose file has no footer.
FooterlessSegments(L) ==
    {i \in 1..Len(L.reader.segments) :
        ~L.files[L.reader.segments[i].seq].footer.present}

\* C12 as stated: while the log is open (Writing) exactly one segment of the
\* registry is writable and without a footer, and it is the last one.
C12_ExactlyOneActiveSegment ==
    log.log_state = kLogWriting =>
        /\ WritableSegments(log) = {Len(log.reader.segments)}
        /\ FooterlessSegments(log) = {Len(log.reader.segments)}

C15_PeersRetainedUpToCeiling ==
    (log.log_state = kLogWriting /\ maint.pending = <<>>) =>
        \A r \in AllRetentions :
            LET before == log.reader.segments
                del == GetSegmentsToGCUnlocked(log, r[1], r[2])
                after == GC(log, r[1], r[2]).log.reader.segments
            IN /\ \A i \in 1..Len(del) :
                      del[i].footer.max_replicate_index >= r[2] =>
                          Len(before) - (i - 1) > FLAGS_log_max_segments_to_retain
               /\ r[2] = r[1] =>
                      \/ Len(after) <= FLAGS_log_min_segments_to_retain
                      \/ ~after[1].footer.present
                      \/ after[1].footer.max_replicate_index >= r[1]
               /\ (/\ r[2] = r[1]
                   /\ Len(before) > FLAGS_log_min_segments_to_retain
                   /\ \A i \in 1..(Len(before) - 1) :
                          /\ before[i].footer.present
                          /\ before[i].footer.max_replicate_index < r[1]) =>
                      Len(after) = FLAGS_log_min_segments_to_retain

\* C15 witness: GC has taken segment 1, which holds a REPLICATE entry, from a
\* registry of more than log_max_segments_to_retain segments, and left exactly
\* log_max_segments_to_retain.
C15_Witness ==
    /\ maint.s = OK /\ log.reader.live
    /\ 1 \notin DOMAIN log.files
    /\ Len(log.reader.segments) = FLAGS_log_max_segments_to_retain
    /\ log.reader.segments[1].seq = 2
    /\ log.reader.segments[1].footer.max_replicate_index = 2

\* C16 as stated: after gc({dur, peers}) every surviving segment with a footer
\* has max_replicate_index >= dur, or the number of segments left equals
\* log_min_segments_to_retain.
C16_SurvivorsAtOrAboveDurability ==
    (log.log_state = kLogWriting /\ maint.pending = <<>>) =>
        \A r \in AllRetentions :
            LET after == GC(log, r[1], r[2]).log.reader.segments
            IN \A i \in 1..Len(after) :
                   after[i].footer.present =>
                       \/ after[i].footer.max_replicate_index >= r[1]
                       \/ Len(after) = FLAGS_log_min_segments_to_retain

\* C16 amended: after gc({dur, peers}) the oldest surviving segment has no
\* footer, or has max_replicate_index >= dur, or has max_replicate_index >=
\* peers with at most log_max_segments_to_retain segments left, or at most
\* log_min_segments_to_retain segments are left.  Later survivors may lie
\* below dur.
C16_OldestSurvivorIsRetained ==
    (log.log_state = kLogWriting /\ maint.pending = <<>>) =>
        \A r \in AllRetentions :
            LET after == GC(log, r[1], r[2]).log.reader.segments
            IN \/ Len(after) <= FLAGS_log_min_segments_to_retain
               \/ ~after[1].footer.present
               \/ after[1].footer.max_replicate_index >= r[1]
               \/ /\ after[1].footer.max_replicate_index >= r[2]
                  /\ Len(after) <= FLAGS_log_max_segments_to_retain

\* C16 witness: GC has deleted segments 1 and 2 and returned OK, leaving more
\* than log_min_segments_to_retain segments, the oldest of them with a footer.
C16_Witness ==
    /\ maint.s = OK /\ log.reader.live
    /\ 1 \notin DOMAIN log.files /\ 2 \notin DOMAIN log.files
    /\ Len(log.reader.segments) > FLAGS_log_min_segments_to_retain
    /\ log.reader.segments[1].seq = 3
    /\ log.reader.segments[1].footer.present

\* The sizes of the files `seqs` of a directory, added up.
RECURSIVE SizeOfFiles(_, _)
SizeOfFiles(files, seqs) ==
    IF seqs = {} THEN 0
    ELSE LET q == CHOOSE x \in seqs : TRUE
         IN files[q].size + SizeOfFiles(files, seqs \ {q})

\* The sequence numbers of the segments of a registry.
SeqSet(segments) == {segments[i].seq : i \in 1..Len(segments)}

\* The size on disk of the files of the segments that GC takes out of the
\* registry of L, and so deletes.
SizeGCDeletes(L, for_durability, for_peers) ==
    SizeOfFiles(L.files,
                SeqSet(L.reader.segments) \
                    SeqSet(GC(L, for_durability, for_peers).log.reader.segments))

\* For every retention, GetGCableDataSize is the size GC deletes, and the size
\* the last call returned is such a size.
GCableIsWhatGCDeletes ==
    (log.log_state = kLogWriting /\ maint.pending = <<>>) =>
        /\ \A r \in AllRetentions :
               GCableDataSize(log, r[1], r[2]) = SizeGCDeletes(log, r[1], r[2])
        /\ maint.size # -1 =>
               \E r \in AllRetentions : maint.size = SizeGCDeletes(log, r[1], r[2])

RECURSIVE SizeOfSegments(_, _)
SizeOfSegments(segments, at) ==
    IF at = {} THEN 0
    ELSE LET i == CHOOSE x \in at : TRUE
         IN segments[i].file_size + SizeOfSegments(segments, at \ {i})

\* C19 as stated: the map of GetReplaySizeMap has, for every segment s of the
\* registry, an entry keyed by s.max_replicate_index whose value is the file
\* size of s and of all later segments together.
C19_EntryForEverySegment ==
    (log.log_state = kLogWriting /\ maint.pending = <<>>) =>
        LET segments == log.reader.segments
            replay_size == ReplaySizeMap(log)
        IN \A i \in 1..Len(segments) :
               /\ segments[i].footer.max_replicate_index \in DOMAIN replay_size
               /\ replay_size[segments[i].footer.max_replicate_index] =
                      SizeOfSegments(segments, i..Len(segments))

\* C19 amended: the keys of the map are the max_replicate_index of the segments
\* that have a footer; the value under a key is the file size, added up, of the
\* segments with a footer from the oldest segment with that key on to the
\* newest.  Segments without a footer have no entry and add nothing; a call
\* returns this map.
C19_EntryPerFooterKey ==
    (log.log_state = kLogWriting /\ maint.pending = <<>>) =>
        LET segments == log.reader.segments
            replay_size == ReplaySizeMap(log)
            footered == {i \in 1..Len(segments) : segments[i].footer.present}
            Oldest(k) == CHOOSE i \in footered :
                /\ segments[i].footer.max_replicate_index = k
                /\ \A j \in footered :
                       segments[j].footer.max_replicate_index = k => i <= j
        IN /\ DOMAIN replay_size =
                  {segments[i].footer.max_replicate_index : i \in footered}
           /\ \A k \in DOMAIN replay_size :
                  replay_size[k] =
                      SizeOfSegments(segments, {j \in footered : j >= Oldest(k)})
           /\ maint.replay # <<>> => maint.replay = replay_size

\* C19 witness: GetReplaySizeMap has returned a map for a registry in which two
\* segments share the key -1 and a segment without a footer lies between
\* segments with one.
C19_Witness ==
    /\ maint.s = OK /\ maint.replay # <<>>
    /\ Len(log.reader.segments) >= 4
    /\ log.reader.segments[1].footer.present
    /\ ~log.reader.segments[2].footer.present
    /\ log.reader.segments[3].footer.present
    /\ \E i \in 1..Len(log.reader.segments) : \E j \in 1..Len(log.reader.segments) :
           /\ i < j
           /\ log.reader.segments[i].footer.present
           /\ log.reader.segments[j].footer.present
           /\ log.reader.segments[i].footer.max_replicate_index =
                  log.reader.segments[j].footer.max_replicate_index

\* The batches of a segment file whose DoAppend returned OK.
AppendedTo(file) ==
    {file.frames[i] : i \in {j \in 1..Len(file.frames) :
                                 batches[file.frames[j]].appended = "ok"}}

\* The indexes of the REPLICATE entries among the batches `ids`.
ReplicateIndexes(ids) == {batches[id].index : id \in {x \in ids : batches[x].type = REPLICATE}}

\* C20: the footer of every closed segment counts the entries of the batches
\* that were appended to that segment (one entry per batch), and its
\* min_replicate_index and max_replicate_index are the smallest and the
\* largest index of the REPLICATE entries appended to that segment, with
\* min <= max; a batch of another segment or a batch whose append failed does
\* not enter the footer.
C20_FooterMatchesAppendedBatches ==
    \A seq \in DOMAIN log.files :
        log.files[seq].footer.present =>
            LET footer == log.files[seq].footer
                indexes == ReplicateIndexes(AppendedTo(log.files[seq]))
            IN /\ footer.num_entries = Cardinality(AppendedTo(log.files[seq]))
               /\ indexes # {} =>
                      /\ footer.min_replicate_index <= footer.max_replicate_index
                      /\ footer.min_replicate_index \in indexes
                      /\ footer.max_replicate_index \in indexes
                      /\ \A x \in indexes : /\ footer.min_replicate_index <= x
                                            /\ x <= footer.max_replicate_index
               /\ indexes = {} =>
                      /\ footer.min_replicate_index = -1
                      /\ footer.max_replicate_index = -1

\* C20 witness: a rollover inside DoAppend closed segment 1, whose footer
\* counts a REPLICATE batch, and the batch that caused the rollover is in
\* segment 2.
C20_Witness ==
    /\ 2 \in DOMAIN log.files
    /\ log.files[1].footer.present
    /\ log.files[1].footer.num_entries >= 1
    /\ log.files[1].footer.min_replicate_index >= 1
    /\ Len(log.files[2].frames) >= 1
    /\ batches[log.files[2].frames[1]].type = REPLICATE

\* The offset at which the i-th frame of a segment file starts.
RECURSIVE OffsetOf(_, _)
OffsetOf(file, i) ==
    IF i = 1 THEN 0
    ELSE OffsetOf(file, i - 1) + batches[file.frames[i - 1]].bytes

\* Every REPLICATE op appended with OK whose segment is in the registry is in
\* the index, at the sequence number of the segment that holds its frame and
\* at the offset where the frame starts.
IndexLocatesAppendedOps ==
    log.reader.live =>
        \A s \in 1..Len(log.reader.segments) :
            LET seq == log.reader.segments[s].seq
            IN seq \in DOMAIN log.files =>
                \A i \in 1..Len(log.files[seq].frames) :
                    LET b == batches[log.files[seq].frames[i]]
                    IN (b.type = REPLICATE /\ b.appended = "ok") =>
                           /\ b.index \in DOMAIN log.index
                           /\ log.index[b.index] =
                                  [segment_sequence_number |-> seq,
                                   offset_in_segment |-> OffsetOf(log.files[seq], i)]

\* The index GC of a Log::GC call removes only entries below the smallest
\* min_replicate_index of the segments left, and changes no other entry.
IndexGCRemovesBelowMin ==
    (maint.s = "indexing" /\ maint'.s = OK) =>
        /\ DOMAIN log'.index \subseteq DOMAIN log.index
        /\ \A i \in DOMAIN log'.index : log'.index[i] = log.index[i]
        /\ \A i \in (DOMAIN log.index) \ (DOMAIN log'.index) :
               i < GetMinReplicateIndex(log.reader.segments)

\* C21: after any appends, rollovers and GCs, every REPLICATE op appended with
\* OK whose segment is still in the registry is found in the index at
\* (sequence number of its segment, start offset of its batch), and the index
\* GC removes only entries below the minimum replicate index of the segments
\* that remain.
C21_IndexLocatesOpsOfRegistrySegments ==
    /\ []IndexLocatesAppendedOps
    /\ [][IndexGCRemovesBelowMin]_vars

\* C22: GetLatestEntryOpId returns the highest OpId of the REPLICATE entries
\* ever appended to the log (a batch counts as appended once its frame is in a
\* segment, synced or not), and MinimumOpId only if there is none.
C22_LatestEntryOpIdIsHighestAppended ==
    LET appended == {batches[id].index :
                         id \in {x \in BatchIds : /\ batches[x].type = REPLICATE
                                                  /\ Written(x)}}
    IN GetLatestEntryOpId(log) =
           IF appended = {} THEN MinimumOpId
           ELSE CHOOSE m \in appended : \A x \in appended : x <= m

\* The bytes of the frames of a segment file, added up.
RECURSIVE FrameBytes(_)
FrameBytes(frames) ==
    IF frames = <<>> THEN 0 ELSE batches[Head(frames)].bytes + FrameBytes(Tail(frames))

\* C23: a failed append of a REPLICATE or COMMIT batch is fatal: the process
\* is gone, the error callback of the batch (if DoAppend returned a status) is
\* the last callback that ran, every OK callback went to a batch reserved
\* before the failed one, and the segment files, which are what a recovery
\* reads, hold whole frames only.
C23_AppendErrorIsFatal ==
    /\ \A id \in BatchIds :
           (batches[id].appended = "fail" /\ batches[id].type # FLUSH_MARKER) =>
               /\ crashed
               /\ \A k \in 1..Len(cb_log) :
                      /\ cb_log[k][1] = id => k = Len(cb_log)
                      /\ cb_log[k][2] = OK => cb_log[k][1] < id
    /\ \A seq \in DOMAIN log.files :
           log.files[seq].size = FrameBytes(log.files[seq].frames)

\* C23 witness: the append of a COMMIT batch failed with an IOError after an
\* earlier batch was acknowledged with OK, and the process is gone.
C23_Witness ==
    /\ crashed
    /\ Len(cb_log) = 2
    /\ cb_log[1][2] = OK
    /\ cb_log[2][2] = IOError
    /\ batches[cb_log[2][1]].type = COMMIT
    /\ batches[cb_log[2][1]].appended = "fail"

\* ------------------------------------------------------------ claims on UpdateConsensus
\* A step in which the replica serves the call in flight.
Handled == replica.req # NoRequest /\ replica'.req = NoRequest

\* The last operation a request names: its last op, or the preceding id.
Delivered(req) == IF req.ops = <<>> THEN req.preceding_id ELSE req.ops[Len(req.ops)]

CommittedWithinReceived == replica.committed_index <= LastReceived(replica).index

CommitsUpToDelivered ==
    Handled /\ replica'.resp.code = OK
        => replica'.committed_index =
               Max(replica.committed_index,
                   Min(replica.req.committed_index, Delivered(replica.req).index))

CommitsUpToLastReceived ==
    Handled /\ replica'.resp.code = OK
        => replica'.committed_index =
               Max(replica.committed_index,
                   Min(replica.req.committed_index, LastReceived(replica').index))

\* C24 (as stated): the committed index never exceeds the index of the last
\* received operation, and an accepted request advances it to
\* min(request.committed_index, last_received.index), last_received being
\* the last operation the replica holds when the call returns.
C24_CommitIsMinOfRequestedAndLastReceived ==
    /\ []CommittedWithinReceived
    /\ [][CommitsUpToLastReceived]_vars

\* C24 (amended): the committed index never exceeds the index of the last
\* received operation, and an accepted request advances it to
\* min(request.committed_index, index of the last operation the request
\* delivers), even when the replica holds operations beyond that one.
C24_CommitBoundedByDelivered ==
    /\ []CommittedWithinReceived
    /\ [][CommitsUpToDelivered]_vars

\* An accepted request re-sent 2.2 to a replica that holds 2.3 as well: the
\* commit index stopped at 2.
C24_Witness ==
    /\ replica.resp.code = OK
    /\ replica.ops = <<1, 2, 2>>
    /\ replica.last_received_current_leader = MakeOpId(2, 2)
    /\ replica.committed_index = 2

\* The call in flight comes from a caller whose term is not behind.
TermAccepted == replica.req.caller_term >= replica.current_term

\* The response of the step reports a mismatch with the replica's status,
\* and the step appended nothing: what the replica holds is a prefix of
\* what it held.
MismatchReported ==
    /\ replica'.resp =
          [code |-> PRECEDING_ENTRY_DIDNT_MATCH,
           last_committed_idx |-> replica'.committed_index,
           last_received |-> MakeOpId(replica'.ops[Len(replica'.ops)], Len(replica'.ops)),
           last_received_current_leader |-> replica'.last_received_current_leader]
    /\ replica.req.caller_term > replica.current_term
          => replica'.resp.last_received_current_leader = MakeOpId(0, 0)
    /\ replica'.committed_index = replica.committed_index
    /\ Len(replica'.ops) <= Len(replica.ops)
    /\ replica'.ops = SubSeq(replica.ops, 1, Len(replica'.ops))

\* C25 (as stated): a request whose preceding_op_id is not the replica's
\* last received op gets PRECEDING_ENTRY_DIDNT_MATCH with the replica's
\* last_committed_idx, last_received and last_received_current_leader, and
\* none of its ops is appended.
C25_MismatchUnlessPrecedingIsLastReceived ==
    [][Handled /\ TermAccepted /\ LastReceived(replica) # replica.req.preceding_id
           => MismatchReported]_vars

\* C25 (amended): a request whose preceding_op_id is not an operation the
\* replica holds (committed or pending) gets PRECEDING_ENTRY_DIDNT_MATCH with
\* the replica's last_committed_idx, last_received and
\* last_received_current_leader ((0,0) under a new term), and none of its
\* ops is appended.
C25_MismatchUnlessPrecedingIsHeld ==
    [][Handled /\ TermAccepted /\ ~IsOpCommittedOrPending(replica, replica.req.preceding_id)
           => MismatchReported]_vars

\* A caller of term 2 named a preceding op the replica, holding 1.1 and 1.2,
\* does not have.
C25_Witness ==
    /\ replica.resp.code = PRECEDING_ENTRY_DIDNT_MATCH
    /\ replica.resp.last_committed_idx = 1
    /\ replica.resp.last_received = MakeOpId(1, 2)
    /\ replica.resp.last_received_current_leader = MakeOpId(0, 0)
    /\ replica.current_term = 2
    /\ replica.aborted = <<>>

\* The step rejected the call with the error `s`, and nothing of the request
\* was appended, committed or counted as received.
RejectedWhole(s) ==
    /\ replica'.resp = [NoResponse EXCEPT !.code = s]
    /\ replica'.ops = replica.ops
    /\ replica'.committed_index = replica.committed_index
    /\ replica'.last_received_current_leader \in
          {replica.last_received_current_leader, MakeOpId(0, 0)}

\* The call in flight passes the term check and names a preceding op the
\* replica holds.
PassesLMP == TermAccepted /\ IsOpCommittedOrPending(replica, replica.req.preceding_id)

\* C26 (as stated): a request whose ops[], taken from preceding_op_id on, is
\* not in sequence is rejected with the corresponding error, and none of its
\* ops is appended, committed or counted in last_received.
C26_OutOfSequenceRejected ==
    [][Handled /\ PassesLMP
         /\ CheckSequence(replica.req.preceding_id, replica.req.ops) # OK
           => RejectedWhole(CheckSequence(replica.req.preceding_id, replica.req.ops))]_vars

\* C26 (amended): a request whose ops[], once the ops the replica holds
\* already are dropped from its front, is not in sequence is rejected with
\* the corresponding error, and none of its ops is appended, committed or
\* counted in last_received, not even a prefix that is in sequence.
C26_OutOfSequenceAfterDedupRejected ==
    [][Handled /\ PassesLMP =>
          LET d == DeduplicateLeaderRequest(replica, replica.req.preceding_id, replica.req.ops)
              s == CheckSequence(d.preceding_opid, d.messages)
          IN s # OK => RejectedWhole(s)]_vars

\* A caller of term 3 sent an op of a lower term than the one before it to a
\* replica that holds 1.1 only: the replica still holds 1.1 only.
C26_Witness ==
    /\ replica.resp.code = kTermError
    /\ replica.current_term = 3
    /\ replica.ops = <<1>>

\* What was applied is what the replica holds at those indexes, and it is
\* committed.
AppliedAreHeld ==
    /\ Len(replica.applied) <= replica.committed_index
    /\ \A i \in 1..Len(replica.applied) :
          replica.applied[i] = MakeOpId(replica.ops[i], i)

\* The step accepted the call in flight.
Accepted == Handled /\ replica'.resp.code = OK

\* Uncommitted operations after the preceding id make way for the ops of the
\* request.
ReplacesAfterPreceding ==
    Accepted /\ Len(replica.ops) > replica.req.preceding_id.index
             /\ replica.req.preceding_id.index >= replica.committed_index
        => replica'.ops = SubSeq(replica.ops, 1, replica.req.preceding_id.index)
                             \o TermsOf(replica.req.ops)

\* Uncommitted operations make way for the ops of the request that the
\* replica does not hold, from the index of the first such op on, whether
\* or not they have left the prepare queue; a request without such an op
\* aborts nothing.
ReplacesFromFirstNewOp ==
    Accepted =>
        LET d == DeduplicateLeaderRequest(replica, replica.req.preceding_id, replica.req.ops)
        IN IF d.messages = <<>>
           THEN replica'.ops = replica.ops /\ replica'.aborted = <<>>
           ELSE /\ replica'.ops = SubSeq(replica.ops, 1, d.preceding_opid.index)
                                     \o TermsOf(d.messages)
                /\ replica'.aborted = OpsAfter(replica, d.preceding_opid.index)

\* C27 (as stated): an accepted request replaces whatever uncommitted ops the
\* replica holds after preceding_op_id by its own ops, at once, and what is
\* applied is what the replica holds after the last replacement.
C27_ReplacesOpsAfterPreceding ==
    /\ []AppliedAreHeld
    /\ [][ReplacesAfterPreceding]_vars

\* C27 (amended): an accepted request replaces the uncommitted ops the
\* replica holds from the index of its first op that the replica does not
\* hold, at once and even when they are stuck in the prepare queue; ops the
\* request re-sends, and what follows them, stay; what is applied is what
\* the replica holds after the last replacement.
C27_ReplacesOpsFromFirstNewOp ==
    /\ []AppliedAreHeld
    /\ [][ReplacesFromFirstNewOp]_vars

\* Operation 2.3, stuck in the prepare queue behind 1.2, was replaced by 3.3
\* of a later leader, and 3.3 was applied.
C27_Witness ==
    /\ replica.aborted = <<[id |-> MakeOpId(2, 3), stuck |-> TRUE]>>
    /\ replica.applied = <<MakeOpId(1, 1), MakeOpId(1, 2), MakeOpId(3, 3)>>

\* The last operation left when the operation at the preceding index goes
\* with all that follow it.
LastBefore(r, preceding_id) ==
    LET n == Min(Len(r.ops), preceding_id.index - 1) IN MakeOpId(r.ops[n], n)

\* C28: when the first call a restarted replica serves ends in an LMP
\* mismatch, the response carries the commit index recorded in the WAL
\* before the restart (not 0), (0,0) as last_received_current_leader, and as
\* last_received the last op left after the divergent tail was truncated.
C28_MismatchAfterRestartReportsWalStatus ==
    [][Handled /\ replica.fresh /\ replica'.resp.code = PRECEDING_ENTRY_DIDNT_MATCH
         => /\ replica'.resp.last_committed_idx = replica.wal_committed_index
            /\ replica'.resp.last_committed_idx > 0
            /\ replica'.resp.last_received_current_leader = MakeOpId(0, 0)
            /\ replica'.resp.last_received = LastBefore(replica, replica.req.preceding_id)]_vars

\* A replica with 2.2 committed in its WAL and 2.3 pending answered a caller
\* of term 2 that named 1.3 as preceding id: only a restart leaves it
\* without a last op received from the leader of term 2.
C28_Witness ==
    /\ replica.resp = [code |-> PRECEDING_ENTRY_DIDNT_MATCH,
                       last_committed_idx |-> 2,
                       last_received |-> MakeOpId(2, 2),
                       last_received_current_leader |-> MakeOpId(0, 0)]
    /\ replica.current_term = 2
    /\ Len(replica.aborted) = 1
    /\ replica.aborted[1].id = MakeOpId(2, 3)

\* The step rejected the call in flight for memory: what the leader has
\* committed of the ops the replica keeps is committed, and the replica
\* holds none of the ops the request would have added.
CommitsDespiteMemoryPressure ==
    Handled /\ replica'.resp.code = kSoftMemoryLimit
        => /\ replica'.committed_index =
                 Max(replica.committed_index,
                     Min(replica.req.committed_index, Len(replica'.ops)))
           /\ Len(replica'.ops) <= Len(replica.ops)
           /\ replica'.ops = SubSeq(replica.ops, 1, Len(replica'.ops))
           /\ replica'.last_received_current_leader \in
                 {replica.last_received_current_leader, MakeOpId(0, 0)}

\* Whatever is committed when a call was rejected for memory gets applied.
CommittedGetApplied ==
    \A i \in 1..MaxIndex :
        (replica.resp.code = kSoftMemoryLimit /\ replica.committed_index >= i)
            ~> (Len(replica.applied) >= i /\ replica.applied[i] = MakeOpId(replica.ops[i], i))

\* C29: a request rejected with "Soft memory limit exceeded" has had its
\* commit-index advancement applied: the ops accepted before and covered by
\* its committed_index are committed and eventually applied, and none of
\* its new ops is accepted.
C29_EarlyCommitDespiteMemoryPressure ==
    /\ [][CommitsDespiteMemoryPressure]_vars
    /\ CommittedGetApplied

\* The replica held 1.2 unapplied; a request that committed it and brought a
\* new op was rejected for memory, and 1.2 has been applied since.
C29_Witness ==
    /\ replica.resp.code = kSoftMemoryLimit
    /\ replica.ops = <<1, 1>>
    /\ replica.committed_index = 2
    /\ replica.wal_committed_index = 1
    /\ Len(replica.applied) = 2

\* ------------------------------------------------------------ claims on ChangeConfig
\* None of the operations the leader has committed is of its current term.
NoCommitInOwnTerm ==
    \A i \in 1..replica.committed_index : replica.ops[i] # replica.current_term

\* C30: whenever a leader that has not committed an op of its current term
\* serves a ChangeConfig call, the call is rejected with "Leader has not yet
\* committed an operation in its own term" and the config, pending or not,
\* stays as it was.
C30_ChangeConfigNeedsCommitInOwnTerm ==
    [][replica.cc_call # 0 /\ replica'.cc_call = 0 /\ replica.role = LEADER
          /\ NoCommitInOwnTerm
         => /\ replica'.cc_status = kNotYetCommitted
            /\ replica'.config = replica.config
            /\ replica'.pending_config = replica.pending_config
            /\ replica'.ops = replica.ops]_vars

\* The leader of term 2 holds its NO_OP 2.2, which both other servers
\* reject, and has turned a ChangeConfig call down.
C30_Witness ==
    /\ replica.role = LEADER
    /\ replica.current_term = 2
    /\ replica.ops = <<1, 2>>
    /\ replica.committed_index = 1
    /\ replica.rejecting = Followers
    /\ replica.cc_status = kNotYetCommitted
    /\ replica.config = RaftConfig(1, Followers)

\* ------------------------------------------------------- C31: batch states
\* The state of batch id moves one step forward or stays.
StateMovesForward(id) ==
    \/ batches'[id].state = batches[id].state
    \/ batches[id].state = kEntryReserved /\ batches'[id].state = kEntrySerialized
    \/ batches[id].state = kEntrySerialized /\ batches'[id].state = kEntryReady
    \/ batches[id].state = kEntryReady /\ batches'[id].state = kEntryFailedToAppend

\* The appender takes batch id through DoAppend in this step.
DoAppendCalledOn(id) ==
    /\ app.pc = "append" /\ app'.i = app.i + 1
    /\ id = BatchToAppend(app.entry_batches, app.i)

\* The producer is through with batch b: serialized, callback and replicates
\* set, marked Ready, ready_lock_ released.
ProducerFinished(b) ==
    /\ b.state = kEntryReady
    /\ b.buffer = (IF b.type = FLUSH_MARKER THEN 0 ELSE b.bytes)
    /\ b.callback
    /\ b.replicates = (b.type = REPLICATE)
    /\ ~b.ready_lock

\* ready_lock_ is held from Reserve until MarkReady.
ReadyLockHeldUntilReady ==
    \A id \in 1..Len(batches) :
        batches[id].ready_lock <=> batches[id].state \in {kEntryReserved, kEntrySerialized}

\* C31: a batch's state only moves forward Reserved -> Serialized -> Ready ->
\* failed-to-append, a batch enters the queue Reserved with its ready lock
\* held, the lock is held until MarkReady, and the appender calls DoAppend on a
\* batch only after the producer has serialized it, set its callback and
\* replicates and marked it Ready; no producer is still at work on it then.
C31_AppenderWaitsForReady ==
    /\ []ReadyLockHeldUntilReady
    /\ [][/\ Len(batches') >= Len(batches)
          /\ \A id \in 1..Len(batches) : StateMovesForward(id)
          /\ \A id \in (Len(batches) + 1)..Len(batches') :
                batches'[id].state = kEntryReserved /\ batches'[id].ready_lock
          /\ \A id \in 1..Len(batches) :
                DoAppendCalledOn(id) =>
                    /\ ProducerFinished(batches[id])
                    /\ \A p \in Producers : ~(prod[p].id = id /\ prod[p].pc # "idle")]_vars

\* The appender has taken the first batch of a group of two through DoAppend
\* and waits for the second, which its producer has serialized and not yet
\* marked Ready.
C31_Witness ==
    /\ app.pc = "append" /\ app.i = 2
    /\ Len(app.entry_batches) = 2
    /\ batches[app.entry_batches[1]].appended = "ok"
    /\ batches[app.entry_batches[2]].state = kEntrySerialized
    /\ batches[app.entry_batches[2]].callback
    /\ batches[app.entry_batches[2]].ready_lock

\* ------------------------------------------- C32: a failed DoAppend in a group
\* The appender marks batch id failed in this step.
MarkedFailed(id) ==
    /\ batches[id].state # kEntryFailedToAppend
    /\ batches'[id].state = kEntryFailedToAppend

\* The turn of the group ends in this step and its Sync, if it ran, succeeded.
GroupSyncSucceeds ==
    /\ app.pc = "append" /\ app'.pc # "append"
    /\ faults' = faults /\ ~crashed'

\* The callbacks with OK for the batches of ids whose DoAppend returned OK.
RECURSIVE OkCallbacks(_)
OkCallbacks(ids) ==
    IF ids = <<>> THEN <<>>
    ELSE IF batches[Head(ids)].appended = "ok"
    THEN <<<<Head(ids), OK>>>> \o OkCallbacks(Tail(ids))
    ELSE OkCallbacks(Tail(ids))

\* No batch that is marked failed has had its callback run with OK.
FailedNeverGetsOk ==
    \A id \in 1..Len(batches) :
        batches[id].state = kEntryFailedToAppend =>
            \A k \in CallbacksOf(id) : cb_log[k][2] # OK

\* C32: a DoAppend that fails marks the batch of that turn failed and no
\* other, and runs that batch's callback with the error; the loop goes on to
\* the next batch of the group, the group's Sync is reached only after every
\* batch of the group went through DoAppend; when the Sync succeeds exactly
\* the batches whose DoAppend returned OK get OK, in order, and a failed batch
\* never gets OK.
C32_FailedAppendIsIsolated ==
    /\ []FailedNeverGetsOk
    /\ [][/\ \A id \in 1..Len(batches) :
                MarkedFailed(id) =>
                    /\ DoAppendCalledOn(id)
                    /\ \A other \in (1..Len(batches)) \ {id} :
                          batches'[other] = batches[other]
                    /\ Len(cb_log') = Len(cb_log) + 1
                    /\ cb_log'[Len(cb_log')][1] = id
                    /\ cb_log'[Len(cb_log')][2] \notin {OK, "none"}
                    /\ app'.pc = "append"
                    /\ app'.entry_batches = app.entry_batches
          /\ (app.pc = "append" /\ app'.pc # "append") =>
                \A k \in 1..Len(app.entry_batches) :
                    batches[app.entry_batches[k]].appended \in {"ok", "fail"}
          /\ GroupSyncSucceeds => cb_log' = cb_log \o OkCallbacks(app.entry_batches)
         ]_vars

\* In a group of two the first DoAppend failed and the second returned OK; the
\* group's Sync succeeded: the first batch got the error, the second OK.
C32_Witness ==
    /\ app.pc = "drain" /\ app.groups = 1
    /\ Len(batches) = 2
    /\ batches[1].group = 1 /\ batches[2].group = 1
    /\ batches[1].state = kEntryFailedToAppend
    /\ batches[2].appended = "ok"
    /\ Len(cb_log) = 2
    /\ cb_log[1][1] = 1 /\ cb_log[1][2] = IOError
    /\ cb_log[2] = <<2, OK>>

\* ---------------------------------------------- C33: the allocation state
\* The moves of the allocation state one step of a thread can make: one move
\* of the cycle, or the moves of a synchronous allocation (NotStarted ->
\* InProgress -> Finished) taken together.
AllocationStateCycles ==
    \/ log'.allocation_state = log.allocation_state
    \/ log.allocation_state = kAllocationNotStarted
          /\ log'.allocation_state \in {kAllocationInProgress, kAllocationFinished}
    \/ log.allocation_state = kAllocationInProgress
          /\ log'.allocation_state = kAllocationFinished
    \/ log.allocation_state = kAllocationFinished
          /\ log'.allocation_state = kAllocationNotStarted

\* PreAllocateNewSegment leaves the state Finished whether it fails or not.
PreAllocateLeavesFinished ==
    log.allocation_state = kAllocationInProgress =>
        \A f \in {NoFault, "prealloc"} :
            SegmentAllocationTask(log, f).log.allocation_state = kAllocationFinished

\* C33: the allocation state only cycles NotStarted -> InProgress -> Finished
\* -> NotStarted, PreAllocateNewSegment leaves it Finished on every return
\* path, and no allocation step is entered out of turn: AsyncAllocateSegment
\* only in NotStarted, PreAllocateNewSegment only in InProgress, RollOver only
\* in Finished, for every interleaving of the appender with
\* AllocateSegmentAndRollOver and Init.
C33_AllocationStateCycles ==
    /\ [](log.out_of_turn = {})
    /\ []PreAllocateLeavesFinished
    /\ [][AllocationStateCycles]_vars

\* ------------------------------------------------ C34: the order of a rollover
\* The frames of segment file q.
FramesOf(L, q) == {L.files[q].frames[i] : i \in 1..Len(L.files[q].frames)}

\* A footer is written only to a segment whose frames a Sync has covered.
SyncBeforeFooter ==
    \A q \in DOMAIN log.files :
        log'.files[q].footers > log.files[q].footers => FramesOf(log', q) \subseteq log'.covered

\* A segment file with the next sequence number exists only once the footer
\* of the segment before it is written.
FooterBeforeRename ==
    \A q \in DOMAIN log.files : q > 1 => log.files[q - 1].footers >= 1

\* The registry holds a footered segment only once the file of the next
\* segment exists and has its header.
HeaderBeforeReplace ==
    \A i \in 1..Len(log.reader.segments) :
        log.reader.segments[i].footer.present =>
            /\ (log.reader.segments[i].seq + 1) \in DOMAIN log.files
            /\ log.files[log.reader.segments[i].seq + 1].header

\* The registry of a Writing log ends with the active segment, and every
\* segment before it is footered.
RegistryEndsWithActive ==
    log.log_state = kLogWriting =>
        /\ log.reader.segments # <<>>
        /\ log.reader.segments[Len(log.reader.segments)].seq = log.active_segment.seq
        /\ \A i \in 1..(Len(log.reader.segments) - 1) :
              log.reader.segments[i].footer.present

\* A frame is written to the active segment only, and never to a segment whose
\* footer is written.
WritesOnlyBeforeFooter ==
    \A q \in DOMAIN log.files :
        log'.files[q].frames # log.files[q].frames =>
            /\ q = log.active_segment.seq
            /\ log.files[q].footers = 0

\* The claim's order: the closed segment is replaced in the registry before the
\* placeholder is renamed to the next sequence number.
ReplacedBeforeRename ==
    \A q \in DOMAIN log.files :
        (q > 1 /\ log.log_state = kLogWriting) =>
            \E i \in 1..Len(log.reader.segments) :
                /\ log.reader.segments[i].seq = q - 1
                /\ log.reader.segments[i].footer.present

\* C34 as stated: a rollover syncs the active segment, writes its footer,
\* replaces it in the registry by a footered readable segment and then
\* renames the placeholder to the next sequence number; no batch is written to
\* a segment after its footer.
C34_RolloverReplacesThenRenames ==
    /\ []FooterBeforeRename
    /\ []ReplacedBeforeRename
    /\ [][SyncBeforeFooter /\ WritesOnlyBeforeFooter]_vars

\* C34, in the order of the code: Sync, footer and close, rename of the
\* placeholder to the next sequence number and its header, then the
\* replacement of the closed segment in the registry and the append of the new
\* active segment; a frame is written to the active segment only and never
\* after its footer, so none reaches the new segment before the old footer.
C34_RolloverRenamesThenReplaces ==
    /\ []FooterBeforeRename
    /\ []HeaderBeforeReplace
    /\ []RegistryEndsWithActive
    /\ [][SyncBeforeFooter /\ WritesOnlyBeforeFooter]_vars

\* A rollover is through and a batch is in the new segment: segment 1 is
\* footered in the registry, segment 2 is active and holds a frame.
C34_Witness ==
    /\ log.log_state = kLogWriting
    /\ log.active_segment.seq = 2
    /\ Len(log.reader.segments) = 2
    /\ log.reader.segments[1].footer.present
    /\ log.files[1].footers = 1
    /\ log.files[1].frames # <<>>
    /\ log.files[2].frames # <<>>

\* ------------------------------------------------------ C35: FLUSH_MARKER
\* WaitUntilAllFlushed returned OK for the marker batch m: the Synchronizer it
\* passed as the callback was run with OK.
FlushedOk(m) ==
    /\ batches[m].type = FLUSH_MARKER
    /\ \E k \in CallbacksOf(m) : cb_log[k][2] = OK

\* Every batch reserved before marker m went through DoAppend and had its
\* callback run before the marker's.
BarrierHolds(m) ==
    \A id \in 1..(m - 1) :
        /\ batches[id].appended \in {"ok", "fail"}
        /\ \E k \in CallbacksOf(id) : \A j \in CallbacksOf(m) : k < j

\* C35: once WaitUntilAllFlushed has returned OK, every batch reserved before
\* its marker has been passed to DoAppend and has had its callback run; and
\* the DoAppend of a marker leaves the log as it was: no byte in any segment,
\* the written offset, the index, the footer accumulator and last_entry_op_id
\* unchanged.
C35_FlushMarkerIsBarrierAndWritesNothing ==
    /\ [](\A m \in 1..Len(batches) : FlushedOk(m) => BarrierHolds(m))
    /\ [][\A m \in 1..Len(batches) :
             (DoAppendCalledOn(m) /\ batches[m].type = FLUSH_MARKER) => log' = log]_vars

\* WaitUntilAllFlushed returned OK after a REPLICATE batch that was reserved
\* before the marker was appended: the segment holds that one frame.
C35_Witness ==
    /\ Len(batches) = 2
    /\ batches[1].type = REPLICATE /\ batches[1].appended = "ok"
    /\ FlushedOk(2)
    /\ log.write_log = <<1>>
    /\ log.last_entry_op_id = 1

\* The step leaves the committed index where it was or moves it forward.
CommittedIndexKept == replica'.committed_index >= replica.committed_index

CommittedOpsKept ==
    \A i \in 1..replica.committed_index :
        i <= Len(replica'.ops) /\ replica'.ops[i] = replica.ops[i]

\* C37: an accepted UpdateConsensus request, whatever preceding_op_id it
\* names, leaves every operation up to the replica's committed index as it
\* was: the truncation on replace removes and overwrites uncommitted
\* operations only.
C37_TruncationKeepsCommittedOps ==
    [][Accepted => CommittedOpsKept]_vars

\* An accepted request replaced 1.3 by 2.3 on a replica whose operations 1.1
\* and 1.2 are committed.
C37_Witness ==
    /\ replica.resp.code = OK
    /\ replica.committed_index = 2
    /\ replica.ops = <<1, 1, 2>>
    /\ Len(replica.aborted) = 1
    /\ replica.aborted[1].id = MakeOpId(1, 3)

\* How far the reader may read the active segment: DoAppend publishes the
\* written offset of the active segment after every WriteEntryBatch.
SafeReadOffset(L) == ActiveSize(L)

\* The DoAppend of batch `id` returned a status that is not OK in this step.
DoAppendFailedOn(id) ==
    /\ DoAppendCalledOn(id)
    /\ MarkedFailed(id)
    /\ ~crashed'

\* Nothing of batch `id` is in a segment after the step, and the offset
\* published to the reader, the log index, the footer accumulator and
\* last_entry_op_id are what they were before it.
LeavesNoTrace(id) ==
    /\ \A q \in DOMAIN log'.files :
           \A k \in 1..Len(log'.files[q].frames) : log'.files[q].frames[k] # id
    /\ SafeReadOffset(log') = SafeReadOffset(log)
    /\ log'.index = log.index
    /\ log'.footer_builder = log.footer_builder
    /\ log'.last_entry_op_id = log.last_entry_op_id

\* C38: a DoAppend that returns a status that is not OK (injected IOError,
\* failed rollover or allocation, failed segment write) leaves no trace of
\* the batch: none of its bytes is in a segment, and the published
\* safe-read offset, the log index, the footer accumulator and
\* last_entry_op_id are the same as before the call.
C38_FailedAppendLeavesNoTrace ==
    [][\A id \in BatchIds : DoAppendFailedOn(id) => LeavesNoTrace(id)]_vars

\* A preallocation of this Log object has failed: allocation_status_ holds
\* its error.
AllocationFailed(L) == L.allocation_status \notin {OK, "unset"}

\* The step is a step of the same Log object.
SameLog == log'.opens = log.opens

FailedAllocationIsFinished ==
    AllocationFailed(log) => log.allocation_state = kAllocationFinished

\* The stored error stays, and no placeholder is created.
AllocationErrorSticks ==
    AllocationFailed(log) /\ SameLog
        => /\ log'.allocation_status = log.allocation_status
           /\ log'.placeholder = log.placeholder

\* No frame is written and no segment file is added.
NothingWrittenAfterFailure ==
    AllocationFailed(log) /\ SameLog
        => /\ log'.write_log = log.write_log
           /\ DOMAIN log'.files \subseteq DOMAIN log.files
           /\ \A q \in DOMAIN log'.files : log'.files[q].frames = log.files[q].frames

\* The DoAppend of a batch that is not empty fails with the stored error.
AppendReturnsAllocationError ==
    \A id \in BatchIds :
        AllocationFailed(log) /\ DoAppendCalledOn(id) /\ batches[id].bytes > 0
            => /\ MarkedFailed(id)
               /\ cb_log' = Append(cb_log, <<id, log.allocation_status>>)

\* C39: once a segment preallocation has failed, the allocation state stays
\* Finished with the stored error: every later DoAppend of a non-empty batch
\* returns that error, no new allocation is started, and no batch is written
\* until the log is reopened.
C39_AllocationFailureIsSticky ==
    /\ []FailedAllocationIsFinished
    /\ [][AllocationErrorSticks]_vars
    /\ [][NothingWrittenAfterFailure]_vars
    /\ [][AppendReturnsAllocationError]_vars

\* One fault was injected, in the preallocation a first batch needed; the
\* DoAppend of that batch and of the next one both failed with its error.
C39_Witness ==
    /\ faults = 1
    /\ log.allocation_status = IOError
    /\ log.allocation_state = kAllocationFinished
    /\ Len(cb_log) = 2
    /\ cb_log[1][2] = IOError /\ cb_log[2][2] = IOError
    /\ cb_log[1][1] # cb_log[2][1]

\* Close returns only after the append thread has left its loop with nothing
\* left in the queue or in its hands.
AppenderExitsBeforeFooter ==
    closer.pc = "join" /\ closer'.pc = "idle"
        => /\ app.pc \in {"none", "done"}
           /\ entry_queue.list = <<>>
           /\ \A id \in BatchIds :
                  batches[id].state = kEntryReady => batches[id].appended # "no"

\* A Close that was called returns, while the process lives.
CloseReturns == (closer.pc = "join") ~> (closer.pc = "idle" \/ crashed)

\* C40: when every batch whose Reserve succeeded is marked Ready in the end,
\* Close returns in the end: the append thread handles the batches still in
\* the queue and exits before the footer of the active segment is written,
\* and Close, the producers and the rollover of the append thread do not
\* wait for each other for ever.
C40_CloseReturns ==
    /\ [][AppenderExitsBeforeFooter]_vars
    /\ CloseReturns

====
